---- MODULE Spec2Model ----
(***************************************************************************)
(* qbouncer: the supervisor state machine (service.py), the iptables       *)
(* killswitch manager (killswitch.py) and the qBittorrent client.          *)
(*                                                                         *)
(* The packet filter is modelled as the QBOUNCER-KS chain (present or      *)
(* absent, with its ordered rules) and the ordered rules of OUTPUT.  Every *)
(* iptables invocation of the killswitch manager is one step, so the       *)
(* states between two commands are states of the model.  A command may     *)
(* fail (non-zero exit, timeout).  Failed commands, failed writes of the   *)
(* state file, and edits of the packet filter or of the client's           *)
(* preferences by somebody else are the disturbances of a behaviour; their *)
(* number is bounded by MaxFaults.  max_consecutive_failures is any value  *)
(* the configuration accepts up to MaxThreshold.                           *)
(*                                                                         *)
(* Spec   : the supervisor (run loop, ticks, signals) using the killswitch *)
(* KsSpec : the killswitch manager alone, called in any order from any     *)
(*          packet-filter state                                            *)
(* QbtSpec : the qBittorrent client alone (qbittorrent.py), one step per   *)
(*          HTTP request, the server answering as it likes                 *)
(* BackoffSpec : _calculate_backoff for every accepted configuration       *)
(* NatPmpSpec : the NAT-PMP manager alone (natpmp.py), one step per        *)
(*          natpmpc invocation                                             *)
(* StateFileSpec : _save_state and _load_state over any state file         *)
(* ConfigSpec : main() from Config.load to the start of run()              *)
(* MonitorSpec : the MONITORING ticks of a supervisor whose killswitch      *)
(*          somebody else may have taken rules from                        *)
(* ConfigureSpec : the CONFIGURING ticks, one step per client call and     *)
(*          per HTTP request                                               *)
(* LiveSpec : the supervisor in good weather, ticks scheduled fairly       *)
(***************************************************************************)
EXTENDS Integers, Sequences, FiniteSets, TLC

\* ------------------------------------------------------------------ bounds
MaxChainLen == 1
MaxOutLen == 2
MaxFaults == 1
MaxThreshold == 2
MaxBase == 3
MaxDelay == 24
MaxExponent == 4
MaxDigits == 5
MaxRefreshes == 2
MaxSecs == 1
MaxInterval == 3

VARIABLES
    \* packet filter (kernel tables)
    chainExists,        \* QBOUNCER-KS exists in table filter
    chainRules,         \* its rules, in order
    output,             \* the rules of OUTPUT, in order
    \* KillswitchManager
    active,             \* _active
    kpc,                \* position inside the manager's code
    kop,                \* the public method in progress / last called
    kinner,             \* TRUE while setup() is inside its internal cleanup()
    kidx,               \* index of the rule _add_chain_rules is at
    klog,               \* mutating commands issued by the current / last call
    kfailed,            \* some command of the current / last call failed
    kraised,            \* the last call raised KillswitchError to its caller
    kvalue,             \* the boolean the last verify() / is_active() returned
    kprev,              \* [op, raised, failed, log] of the call before the last one
                        \* (kept for call sequences, KsSpec)
    kbefore,            \* the packet filter when the last call began (KsSpec)
    faults,             \* disturbances so far: failed commands and writes,
                        \* external edits
    \* QBouncerService
    state,              \* self.state
    shutdown_requested, \* self._shutdown_requested
    pc,                 \* position of the main thread
    consecutive_failures,
    current_port,
    last_port_refresh,  \* None, "loaded" from the state file, or "set" by a refresh
    last_vpn_check,
    killswitch_enabled, \* config.killswitch_enabled
    max_consecutive_failures, \* config.max_consecutive_failures
    \* collaborators and files
    qbt_port,           \* the client's listen_port
    qbt_iface,          \* the client's current_network_interface
    file_last_port,     \* last_port of the state file ("absent" when no file)
    \* history
    vpnSeenHealthy,     \* some is_healthy() of this run returned true
    setupSucceeded,     \* some setup() of this run returned without raising
    tampered,           \* somebody else removed a rule of the killswitch
    tickHandler,        \* the handler the last tick dispatched to
    tickFailed,         \* the last tick counted a failure
    tickResult,         \* [ok, caught, calls] of the last tick: its step succeeded, and
                        \* the exception it caught (None when it caught none)
    notified,           \* what run() and _cleanup have passed to _sd_notify:
                        \* READY=1 and STOPPING=1 so far, WATCHDOG=1 since the
                        \* last tick began
    \* QBittorrentClient
    username,           \* a username is configured (self.username is non-empty)
    authenticated,      \* self._authenticated
    qpc,                \* position inside the client's code
    qcall,              \* the public method in progress / last called
    qtodo,              \* the set_preferences calls the method has still to make
    qlog,               \* the HTTP requests the call has sent, with their responses
    qraised,            \* the last call raised QBittorrentError
    \* _calculate_backoff
    failure_backoff_base,   \* config.failure_backoff_base
    failure_backoff_max,    \* config.failure_backoff_max
    backoff,            \* <<d>> once _calculate_backoff has returned d, <<>> before
    \* NatPmpManager
    nat_port,           \* self.current_port: <<>> for None, <<p>> for port p
    nat_last_refresh,   \* self.last_refresh: the number of the refresh_mapping
                        \* call that set it, 0 for None
    rpc,                \* position inside refresh_mapping
    ncalls,             \* refresh_mapping calls so far
    nlog,               \* the protocols the current / last call has requested
    tcp_mapping,        \* public_port of the TCP mapping of the call (<<>>: none)
    udp_mapping,        \* public_port of the UDP mapping of the call (<<>>: none)
    nresult,            \* [raised, port] of the last refresh_mapping call
    \* state file and its loader (_load_state, _save_state)
    state_file,         \* the content of config.state_file
    file_origin,        \* "found": as it was at start, "saved": written by _save_state
    saved,              \* the runtime state the last successful _save_state wrote
    lpc,                \* "running", or "raised" when the constructor raised
    loaded,             \* the runtime state is the one a constructor has left
    \* configuration (Config.load)
    natpmp_refresh_interval,
    natpmp_lease_lifetime,
    other_fields_valid, \* the checks of _validate on names, addresses, port,
                        \* health-check interval, log level and user pass
    \* _configure_qbittorrent, one step per client call
    listening_port,     \* its local current_port: what get_listening_port returned
    current_interface,  \* its local: what get_network_interface returned
    edited              \* somebody else has edited the client's preferences
                        \* since the handler began

filterVars == <<chainExists, chainRules, output>>
clientVars == <<username, authenticated, qpc, qcall, qtodo, qlog, qraised>>
backoffVars == <<failure_backoff_base, failure_backoff_max, backoff>>
natVars == <<nat_port, nat_last_refresh, rpc, ncalls, nlog, tcp_mapping, udp_mapping,
             nresult>>
storeVars == <<state_file, file_origin, saved, lpc, loaded>>
configVars == <<natpmp_refresh_interval, natpmp_lease_lifetime, other_fields_valid>>
localVars == <<listening_port, current_interface, edited>>
ksVars == <<chainExists, chainRules, output, active, kpc, kop, kinner, kidx, klog,
            kfailed, kraised, kvalue, kprev, kbefore, faults>>
svVars == <<state, shutdown_requested, pc, consecutive_failures, current_port,
            last_port_refresh, last_vpn_check, killswitch_enabled,
            max_consecutive_failures, clientVars, backoffVars,
            natVars, storeVars, configVars, localVars>>
envVars == <<qbt_port, qbt_iface, file_last_port>>
histVars == <<vpnSeenHealthy, setupSucceeded, tampered, tickHandler, tickFailed,
              tickResult, notified>>
vars == <<ksVars, svVars, envVars, histVars>>

\* ----------------------------------------------------------------- helpers
None == "none"

BSeq(S, n) == UNION {[1..k -> S] : k \in 0..n}

RuleExists(rules, r) == \E i \in 1..Len(rules) : rules[i] = r

Count(rules, r) == Cardinality({i \in 1..Len(rules) : rules[i] = r})

\* iptables -D: delete the first rule matching the specification
RemoveFirst(rules, r) ==
    LET i == CHOOSE k \in 1..Len(rules) :
                 rules[k] = r /\ \A j \in 1..(k - 1) : rules[j] # r
    IN  SubSeq(rules, 1, i - 1) \o SubSeq(rules, i + 1, Len(rules))

\* What a tick has to report before its handler has run
NoResult == [ok |-> FALSE, caught |-> None, calls |-> <<>>]

\* Nothing has been passed to _sd_notify
NotNotified == [ready |-> 0, watchdog |-> 0, stopping |-> 0]

\* The four chain rules of _add_chain_rules, in the order of its list
FourRules == <<"lo", "est", "vpn", "rej">>

\* OUTPUT rules: "jump" is -m owner --uid-owner <uid> -j QBOUNCER-KS for the
\* configured user, "jump_other" the same for another uid, "other" any rule
\* that does not reference the chain.
OutAlphabet == {"jump", "jump_other", "other"}

Filter == [ce |-> chainExists, cr |-> chainRules, out |-> output]

\* iptables -X refuses a chain that has rules or is referenced
Deletable(f) ==
    /\ f.cr = <<>>
    /\ ~RuleExists(f.out, "jump")
    /\ ~RuleExists(f.out, "jump_other")

\* The collaborators fail only while the failure counter is below the cap
MaxFailCount == max_consecutive_failures + 1

CanFail == consecutive_failures < MaxFailCount

\* ------------------------------------------------------- KillswitchManager
\* One step of the manager: the new packet filter, _active, the next
\* position, the commands issued, and how the step ended.
KsSet(f, act, npc, inner, idx, cmds, failed, raised, val, fault) ==
    /\ fault => faults < MaxFaults
    /\ faults' = IF fault THEN faults + 1 ELSE faults
    /\ chainExists' = f.ce
    /\ chainRules' = f.cr
    /\ output' = f.out
    /\ active' = act
    /\ kpc' = npc
    /\ kinner' = inner
    /\ kidx' = idx
    /\ klog' = klog \o cmds
    /\ kfailed' = (kfailed \/ failed)
    /\ kraised' = raised
    /\ kvalue' = val
    /\ UNCHANGED <<kop, kprev, kbefore>>
    /\ UNCHANGED <<svVars, envVars, histVars>>

\* A caller invokes a public method of the manager
StartCall(op) ==
    /\ kpc = "idle"
    /\ kpc' = op
    /\ kop' = op
    /\ kprev' = IF pc = "driver"
                THEN [op |-> kop, raised |-> kraised, failed |-> kfailed, log |-> klog]
                ELSE kprev
    /\ kbefore' = IF pc = "driver" THEN Filter ELSE kbefore
    /\ klog' = <<>>
    /\ kfailed' = FALSE
    /\ kraised' = FALSE
    /\ kvalue' = FALSE
    /\ kinner' = FALSE
    /\ kidx' = 1
    /\ UNCHANGED <<chainExists, chainRules, output, active, faults>>

\* Where control goes when cleanup() returns: back into setup() (line 178)
\* or to the caller.  cleanup() catches KillswitchError, so it returns
\* normally on every path.
CleanupReturn == IF kinner THEN "create" ELSE "idle"

\* cleanup() without its except clause: the KillswitchError reaches the caller
CleanupAbortRaising(cmds, fault) ==
    KsSet(Filter, active, "idle", FALSE, kidx, cmds, TRUE, TRUE, FALSE, fault)

\* A KillswitchError inside cleanup()'s try block: logged, cleanup returns
CleanupAbort(cmds, fault) ==
    KsSet(Filter, active, CleanupReturn, FALSE, kidx, cmds, TRUE, FALSE, FALSE, fault)

\* A KillswitchError inside setup() outside its internal cleanup(): raised
SetupRaise(cmds) ==
    KsSet(Filter, active, "idle", FALSE, kidx, cmds, TRUE, TRUE, FALSE, TRUE)

\* setup(), lines 173-176: a residual chain is cleaned up first
SetupChk ==
    /\ kpc = "setup"
    /\ \/ SetupRaise(<<>>)
       \/ /\ chainExists
          /\ KsSet(Filter, active, "flush", TRUE, kidx, <<>>, FALSE, FALSE, FALSE, FALSE)
       \/ /\ ~chainExists
          /\ KsSet(Filter, active, "create", FALSE, kidx, <<>>, FALSE, FALSE, FALSE, FALSE)

\* _flush_chain without its _chain_exists() guard: -F is issued always, and
\* fails when there is no chain
FlushChainUnguarded ==
    /\ kpc \in {"flush", "cleanup"}
    /\ \/ /\ ~chainExists
          /\ CleanupAbort(<<"F">>, FALSE)
       \/ /\ chainExists
          /\ KsSet([Filter EXCEPT !.cr = <<>>], active, "rmjump", kinner, kidx,
                   <<"F">>, FALSE, FALSE, FALSE, FALSE)
       \/ /\ chainExists
          /\ CleanupAbort(<<"F">>, TRUE)

\* cleanup(), line 215: _flush_chain
FlushChain ==
    /\ kpc \in {"flush", "cleanup"}
    /\ \/ CleanupAbort(<<>>, TRUE)
       \/ /\ ~chainExists
          /\ KsSet(Filter, active, "rmjump", kinner, kidx, <<>>, FALSE, FALSE, FALSE, FALSE)
       \/ /\ chainExists
          /\ KsSet([Filter EXCEPT !.cr = <<>>], active, "rmjump", kinner, kidx,
                   <<"F">>, FALSE, FALSE, FALSE, FALSE)
       \/ /\ chainExists
          /\ CleanupAbort(<<"F">>, TRUE)

\* cleanup(), line 216: _remove_jump_rule, one iteration of its while loop
RemoveJumpRule ==
    /\ kpc = "rmjump"
    /\ \/ CleanupAbort(<<>>, TRUE)
       \/ /\ RuleExists(output, "jump")
          /\ KsSet([Filter EXCEPT !.out = RemoveFirst(output, "jump")], active, "rmjump",
                   kinner, kidx, <<"D">>, FALSE, FALSE, FALSE, FALSE)
       \/ /\ RuleExists(output, "jump")
          /\ CleanupAbort(<<"D">>, TRUE)
       \/ /\ ~RuleExists(output, "jump")
          /\ KsSet(Filter, active, "delchain", kinner, kidx, <<>>, FALSE, FALSE, FALSE, FALSE)

\* _delete_chain that never issues -X
DeleteChainSkipped ==
    /\ kpc = "delchain"
    /\ \/ CleanupAbort(<<>>, TRUE)
       \/ KsSet(Filter, FALSE, CleanupReturn, FALSE, kidx, <<>>, FALSE, FALSE, FALSE, FALSE)

\* cleanup(), lines 217-219: _delete_chain, then _active = False
DeleteChain ==
    /\ kpc = "delchain"
    /\ \/ CleanupAbort(<<>>, TRUE)
       \/ /\ ~chainExists
          /\ KsSet(Filter, FALSE, CleanupReturn, FALSE, kidx, <<>>, FALSE, FALSE, FALSE, FALSE)
       \/ /\ chainExists
          /\ Deletable(Filter)
          /\ KsSet([Filter EXCEPT !.ce = FALSE], FALSE, CleanupReturn, FALSE, kidx,
                   <<"X">>, FALSE, FALSE, FALSE, FALSE)
       \/ /\ chainExists
          /\ ~Deletable(Filter)
          /\ CleanupAbort(<<"X">>, FALSE)
       \/ /\ chainExists
          /\ Deletable(Filter)
          /\ CleanupAbort(<<"X">>, TRUE)

\* setup(), line 178: _create_chain
CreateChain ==
    /\ kpc = "create"
    /\ \/ SetupRaise(<<>>)
       \/ /\ chainExists
          /\ KsSet(Filter, active, "rules", FALSE, 1, <<>>, FALSE, FALSE, FALSE, FALSE)
       \/ /\ ~chainExists
          /\ KsSet([Filter EXCEPT !.ce = TRUE, !.cr = <<>>], active, "rules", FALSE, 1,
                   <<"N">>, FALSE, FALSE, FALSE, FALSE)
       \/ /\ ~chainExists
          /\ SetupRaise(<<"N">>)

\* _add_chain_rules that stops one rule early, before REJECT
AfterRuleEarly == IF kidx = Len(FourRules) - 1 THEN "addjump" ELSE "rules"

\* Where _add_chain_rules goes after rule kidx
AfterRule == IF kidx = Len(FourRules) THEN "addjump" ELSE "rules"

\* setup(), line 179: _add_chain_rules, one iteration of its for loop
AddChainRules ==
    /\ kpc = "rules"
    /\ LET r == FourRules[kidx] IN
       \/ SetupRaise(<<>>)
       \/ /\ RuleExists(chainRules, r)
          /\ KsSet(Filter, active, AfterRule, FALSE, kidx + 1, <<>>,
                   FALSE, FALSE, FALSE, FALSE)
       \/ /\ ~RuleExists(chainRules, r)
          /\ KsSet([Filter EXCEPT !.cr = Append(chainRules, r)], active, AfterRule, FALSE,
                   kidx + 1, <<"A">>, FALSE, FALSE, FALSE, FALSE)
       \/ /\ ~RuleExists(chainRules, r)
          /\ SetupRaise(<<"A">>)

\* setup(), lines 180-183: _add_jump_rule, then _active = True
AddJumpRule ==
    /\ kpc = "addjump"
    /\ \/ SetupRaise(<<>>)
       \/ /\ RuleExists(output, "jump")
          /\ KsSet(Filter, TRUE, "idle", FALSE, kidx, <<>>, FALSE, FALSE, FALSE, FALSE)
       \/ /\ ~RuleExists(output, "jump")
          /\ KsSet([Filter EXCEPT !.out = <<"jump">> \o output], TRUE, "idle", FALSE, kidx,
                   <<"I">>, FALSE, FALSE, FALSE, FALSE)
       \/ /\ ~RuleExists(output, "jump")
          /\ SetupRaise(<<"I">>)

\* a verify() that does not look for the REJECT rule
VerifyValueNoReject(f) ==
    /\ f.ce
    /\ RuleExists(f.out, "jump")
    /\ RuleExists(f.cr, "vpn")

\* What verify() returns on a packet filter f
VerifyValue(f) ==
    /\ f.ce
    /\ RuleExists(f.out, "jump")
    /\ RuleExists(f.cr, "vpn")
    /\ RuleExists(f.cr, "rej")

\* verify(): read-only; a timed-out check raises KillswitchError
Verify ==
    /\ kpc = "verify"
    /\ \/ KsSet(Filter, active, "idle", FALSE, kidx, <<>>, TRUE, TRUE, FALSE, TRUE)
       \/ KsSet(Filter, active, "idle", FALSE, kidx, <<>>, FALSE, FALSE,
                VerifyValue(Filter), FALSE)

\* What is_active() returns on a packet filter f
IsActiveValue(f) == f.ce /\ RuleExists(f.out, "jump")

\* is_active(): read-only; a timed-out check raises KillswitchError
IsActive ==
    /\ kpc = "is_active"
    /\ \/ KsSet(Filter, active, "idle", FALSE, kidx, <<>>, TRUE, TRUE, FALSE, TRUE)
       \/ KsSet(Filter, active, "idle", FALSE, kidx, <<>>, FALSE, FALSE,
                IsActiveValue(Filter), FALSE)

\* ------------------------------------------------------------ initial state
\* KillswitchManager.__init__
KsInit ==
    /\ active = FALSE
    /\ kpc = "idle"
    /\ kop = None
    /\ kinner = FALSE
    /\ kidx = 1
    /\ klog = <<>>
    /\ kfailed = FALSE
    /\ kraised = FALSE
    /\ kvalue = FALSE
    /\ kprev = [op |-> None, raised |-> FALSE, failed |-> FALSE, log |-> <<>>]
    /\ kbefore = Filter
    /\ faults = 0

\* Any packet-filter state: a rule can jump to the chain only if it exists
AnyFilter ==
    /\ chainExists \in BOOLEAN
    /\ chainRules \in IF chainExists
                      THEN BSeq({"lo", "est", "vpn", "rej"}, MaxChainLen) \cup {FourRules}
                      ELSE {<<>>}
    /\ output \in IF chainExists
                  THEN BSeq(OutAlphabet, MaxOutLen)
                  ELSE BSeq({"other"}, MaxOutLen)

\* QBouncerService.__init__ with no state file
SvInitCold ==
    /\ state = "INITIALIZING"
    /\ shutdown_requested = FALSE
    /\ consecutive_failures = 0
    /\ current_port = None
    /\ last_port_refresh = None
    /\ last_vpn_check = None
    /\ file_last_port = "absent"
    /\ vpnSeenHealthy = FALSE
    /\ setupSucceeded = FALSE
    /\ tampered = FALSE
    /\ tickHandler = None
    /\ tickFailed = FALSE
    /\ tickResult = NoResult
    /\ notified = NotNotified

\* The value of refresh_mapping's last call before any call was made
NoRefresh == [raised |-> FALSE, port |-> <<>>]

\* NatPmpManager.__init__
NatPmpInit ==
    /\ nat_port = <<>>
    /\ nat_last_refresh = 0
    /\ rpc = "idle"
    /\ ncalls = 0
    /\ nlog = <<>>
    /\ tcp_mapping = <<>>
    /\ udp_mapping = <<>>
    /\ nresult = NoRefresh

\* The text of a timestamp in the state file: the seconds, the fraction
\* (<<>> when ".ffffff" is not written) and the offset (<<>> when no
\* "+00:00" is written)
NoText == [secs |-> 0, frac |-> <<>>, offset |-> <<>>]

\* JSON values: null, a number by its decimal digits, a string by the
\* timestamp text it holds; a string that holds none is not parseable
JNull == [type |-> "null", digits |-> <<>>, parseable |-> FALSE, text |-> NoText]
JNumber(ds) == [type |-> "number", digits |-> ds, parseable |-> FALSE, text |-> NoText]
JString(t) == [type |-> "string", digits |-> <<>>, parseable |-> TRUE, text |-> t]
JGarbage == [type |-> "string", digits |-> <<>>, parseable |-> FALSE, text |-> NoText]
JEmpty == [type |-> "empty_string", digits |-> <<>>, parseable |-> FALSE, text |-> NoText]

\* The content of the state file: no file, a file that cannot be read, text
\* that is not JSON, JSON that is not an object, or an object with its
\* "last_port" and "last_refresh" members
FileOf(kind, port, refresh) == [kind |-> kind, last_port |-> port, last_refresh |-> refresh]
AbsentFile == FileOf("absent", JNull, JNull)

\* No _save_state has returned yet
NoSaved == [called |-> FALSE, current_port |-> <<>>, last_port_refresh |-> <<>>]

\* A supervisor whose state file plays no part
StoreIdle ==
    /\ state_file = AbsentFile
    /\ file_origin = "found"
    /\ saved = NoSaved
    /\ lpc = "running"
    /\ loaded = FALSE

\* The locals of _configure_qbittorrent before the handler has run
LocalIdle ==
    /\ listening_port = None
    /\ current_interface = None
    /\ edited = FALSE

\* QBittorrentClient.__init__ (no call made yet), no backoff computed yet
ClientInit ==
    /\ authenticated = FALSE
    /\ qpc = "idle"
    /\ qcall = None
    /\ qtodo = <<>>
    /\ qlog = <<>>
    /\ qraised = FALSE
    /\ backoff = <<>>

\* The part of the configuration the supervisor's label logic does not read
ConfigDefault ==
    /\ username = FALSE
    /\ failure_backoff_base = 1
    /\ failure_backoff_max = 1
    /\ natpmp_refresh_interval = 1
    /\ natpmp_lease_lifetime = 2
    /\ other_fields_valid = TRUE

\* -------------------------------------------------- the manager on its own
KsInitAlone ==
    /\ LocalIdle
    /\ AnyFilter
    /\ KsInit
    /\ SvInitCold
    /\ ClientInit
    /\ NatPmpInit
    /\ StoreIdle
    /\ ConfigDefault
    /\ pc = "driver"
    /\ killswitch_enabled = TRUE
    /\ max_consecutive_failures = 1
    /\ qbt_port = "6881"
    /\ qbt_iface = ""

\* A caller invokes setup(), cleanup(), verify() or is_active()
KsCall ==
    /\ pc = "driver"
    /\ \E op \in {"setup", "cleanup", "verify", "is_active"} : StartCall(op)
    /\ UNCHANGED <<svVars, envVars, histVars>>

KsNext ==
    \/ KsCall
    \/ SetupChk
    \/ FlushChain
    \/ RemoveJumpRule
    \/ DeleteChain
    \/ CreateChain
    \/ AddChainRules
    \/ AddJumpRule
    \/ Verify
    \/ IsActive

KsSpec == KsInitAlone /\ [][KsNext]_vars

\* ------------------------------------------------------- QBouncerService
\* The public ports the gateway leases, as opaque values
Ports == {"51413", "42000"}

\* listen_port values of the client: the leased ports and its default
QbtPorts == Ports \cup {"6881"}

\* current_network_interface values: the configured binding and "any"
QbtIfaces == {"wg2", ""}

\* config.qbt_interface_binding
qbt_interface_binding == "wg2"

Handlers == {"WAITING_VPN", "WAITING_QBT", "MAPPING_PORT", "CONFIGURING",
             "MONITORING", "RECOVERING"}

\* The caller has consumed the result of its call of the manager
KsForget ==
    /\ kop' = None
    /\ klog' = <<>>
    /\ kfailed' = FALSE
    /\ kraised' = FALSE
    /\ kvalue' = FALSE
    /\ UNCHANGED <<chainExists, chainRules, output, active, kpc, kinner, kidx, kprev,
                   kbefore, faults>>

\* _handle_failure that enters recovery one failure early
HandleFailureStateEarly(st, f) ==
    IF f + 2 >= max_consecutive_failures THEN "RECOVERING" ELSE st

\* _handle_failure: the state label it leaves, given the label and the
\* counter before the call
HandleFailureState(st, f) ==
    IF f + 1 >= max_consecutive_failures THEN "RECOVERING" ELSE st

\* The end of a tick: the label and counter the handler leaves, and whether
\* it counted a failure.  run() then sends WATCHDOG=1 (or has counted the
\* failure of a raised exception) and tests the loop condition again.
EndTick(st, f, failed) ==
    /\ state' = st
    /\ consecutive_failures' = f
    /\ pc' = "loop"
    /\ tickHandler' = tickHandler
    /\ tickFailed' = failed
    /\ notified' = [notified EXCEPT !.watchdog = @ + 1]

\* What the tick reports: ok when its step succeeded, exc the exception
\* caught, calls the collaborator calls and sleeps it made, in order
Result(ok, exc, calls) == tickResult' = [ok |-> ok, caught |-> exc, calls |-> calls]

\* The tick has slept (time.sleep)
Slept == \E i \in DOMAIN tickResult.calls : tickResult.calls[i] = "sleep"

\* run(), lines 218-223: an exception left _tick, so line 217 (WATCHDOG=1) is
\* skipped; _handle_failure counts the failure
TickRaised ==
    /\ state' = HandleFailureState(state, consecutive_failures)
    /\ consecutive_failures' = consecutive_failures + 1
    /\ pc' = "loop"
    /\ tickHandler' = tickHandler
    /\ tickFailed' = TRUE
    /\ UNCHANGED notified

\* run(), lines 199-212: install the handlers, enter WAITING_VPN, READY=1
Start ==
    /\ pc = "start"
    /\ state' = "WAITING_VPN"
    /\ pc' = "loop"
    /\ notified' = [notified EXCEPT !.ready = @ + 1]
    /\ UNCHANGED <<shutdown_requested, consecutive_failures, current_port,
                   last_port_refresh, last_vpn_check, killswitch_enabled,
                   max_consecutive_failures, clientVars, backoffVars,
                   natVars, storeVars, configVars, localVars>>
    /\ UNCHANGED <<ksVars, envVars, vpnSeenHealthy, setupSucceeded, tampered,
                   tickHandler, tickFailed, tickResult>>

\* _handle_signal: SIGTERM or SIGINT, delivered at any point of the loop
HandleSignal ==
    /\ pc \notin {"start", "done", "crashed", "driver"}
    /\ ~shutdown_requested
    /\ shutdown_requested' = TRUE
    /\ state' = "SHUTTING_DOWN"
    /\ UNCHANGED <<pc, consecutive_failures, current_port, last_port_refresh,
                   last_vpn_check, killswitch_enabled,
                   max_consecutive_failures, clientVars, backoffVars,
                   natVars, storeVars, configVars, localVars>>
    /\ UNCHANGED <<ksVars, envVars, histVars>>

\* run(), line 214: the loop condition
LoopTest ==
    /\ pc = "loop"
    /\ pc' = IF state # "SHUTTING_DOWN" THEN "tick" ELSE "cleanup"
    /\ UNCHANGED <<state, shutdown_requested, consecutive_failures, current_port,
                   last_port_refresh, last_vpn_check, killswitch_enabled,
                   max_consecutive_failures, clientVars, backoffVars,
                   natVars, storeVars, configVars, localVars>>
    /\ UNCHANGED <<ksVars, envVars, histVars>>

\* _tick: dispatch on the state label; no branch matches SHUTTING_DOWN (the
\* tick then returns at once and run() sends WATCHDOG=1)
Tick ==
    /\ pc = "tick"
    /\ pc' = IF state \in Handlers THEN state ELSE "loop"
    /\ tickHandler' = IF state \in Handlers THEN state ELSE None
    /\ tickFailed' = FALSE
    /\ tickResult' = NoResult
    /\ notified' = [notified EXCEPT !.watchdog = IF state \in Handlers THEN 0 ELSE 1]
    /\ UNCHANGED <<state, shutdown_requested, consecutive_failures, current_port,
                   last_port_refresh, last_vpn_check, killswitch_enabled,
                   max_consecutive_failures, clientVars, backoffVars,
                   natVars, storeVars, configVars, localVars>>
    /\ UNCHANGED <<ksVars, envVars, vpnSeenHealthy, setupSucceeded, tampered>>

\* _wait_for_vpn that sets the killswitch up before it looks at the VPN
WaitForVpnSetupFirst ==
    /\ pc = "WAITING_VPN"
    /\ \/ \* is_healthy() raises WireGuardError: a required tool is missing
          /\ CanFail
          /\ TickRaised
          /\ Result(FALSE, "WireGuardError", <<"is_healthy">>)
          /\ UNCHANGED <<ksVars, vpnSeenHealthy>>
       \/ \* not healthy: sleep wg_health_check_interval
          /\ EndTick(state, consecutive_failures, FALSE)
          /\ Result(FALSE, None, <<"is_healthy", "sleep">>)
          /\ UNCHANGED <<ksVars, vpnSeenHealthy>>
       \/ \* healthy, no killswitch
          /\ ~killswitch_enabled
          /\ vpnSeenHealthy' = TRUE
          /\ EndTick("WAITING_QBT", 0, FALSE)
          /\ Result(TRUE, None, <<"is_healthy">>)
          /\ UNCHANGED ksVars
       \/ \* set the killswitch up
          /\ killswitch_enabled
          /\ UNCHANGED vpnSeenHealthy
          /\ StartCall("setup")
          /\ pc' = "wait_vpn_setup"
          /\ UNCHANGED <<state, consecutive_failures, tickHandler, tickFailed, tickResult,
                      notified>>
    /\ UNCHANGED <<shutdown_requested, current_port, last_port_refresh,
                   last_vpn_check, killswitch_enabled,
                   max_consecutive_failures, clientVars, backoffVars,
                   natVars, storeVars, configVars, localVars>>
    /\ UNCHANGED <<envVars, setupSucceeded, tampered>>

\* _wait_for_vpn, lines 242-261, up to the call of killswitch.setup()
WaitForVpn ==
    /\ pc = "WAITING_VPN"
    /\ \/ \* is_healthy() raises WireGuardError: a required tool is missing
          /\ CanFail
          /\ TickRaised
          /\ Result(FALSE, "WireGuardError", <<"is_healthy">>)
          /\ UNCHANGED <<ksVars, vpnSeenHealthy>>
       \/ \* not healthy: sleep wg_health_check_interval
          /\ EndTick(state, consecutive_failures, FALSE)
          /\ Result(FALSE, None, <<"is_healthy", "sleep">>)
          /\ UNCHANGED <<ksVars, vpnSeenHealthy>>
       \/ \* healthy, no killswitch
          /\ ~killswitch_enabled
          /\ vpnSeenHealthy' = TRUE
          /\ EndTick("WAITING_QBT", 0, FALSE)
          /\ Result(TRUE, None, <<"is_healthy">>)
          /\ UNCHANGED ksVars
       \/ \* healthy: set the killswitch up
          /\ killswitch_enabled
          /\ vpnSeenHealthy' = TRUE
          /\ StartCall("setup")
          /\ pc' = "wait_vpn_setup"
          /\ UNCHANGED <<state, consecutive_failures, tickHandler, tickFailed, tickResult,
                      notified>>
    /\ UNCHANGED <<shutdown_requested, current_port, last_port_refresh,
                   last_vpn_check, killswitch_enabled,
                   max_consecutive_failures, clientVars, backoffVars,
                   natVars, storeVars, configVars, localVars>>
    /\ UNCHANGED <<envVars, setupSucceeded, tampered>>

\* _wait_for_vpn, lines 252-259, after killswitch.setup() returned or raised
WaitForVpnSetupDone ==
    /\ pc = "wait_vpn_setup"
    /\ kpc = "idle"
    /\ IF kraised
       THEN /\ EndTick(HandleFailureState(state, consecutive_failures),
                       consecutive_failures + 1, TRUE)
            /\ Result(FALSE, "KillswitchError", <<"is_healthy", "setup">>)
            /\ UNCHANGED setupSucceeded
       ELSE /\ EndTick("WAITING_QBT", 0, FALSE)
            /\ Result(TRUE, None, <<"is_healthy", "setup">>)
            /\ setupSucceeded' = TRUE
    /\ UNCHANGED <<shutdown_requested, current_port, last_port_refresh,
                   last_vpn_check, killswitch_enabled,
                   max_consecutive_failures, clientVars, backoffVars,
                   natVars, storeVars, configVars, localVars>>
    /\ KsForget
    /\ UNCHANGED <<envVars, vpnSeenHealthy, tampered>>

\* a WAITING_QBT handler that goes on to CONFIGURING, past the refresh
WaitForQbittorrentSkipsMapping ==
    /\ pc = "WAITING_QBT"
    /\ \/ /\ EndTick("CONFIGURING", 0, FALSE)
          /\ Result(TRUE, None, <<"is_reachable", "get_version">>)
       \/ /\ EndTick(state, consecutive_failures, FALSE)
          /\ Result(FALSE, None, <<"is_reachable", "sleep">>)
    /\ UNCHANGED <<shutdown_requested, current_port, last_port_refresh,
                   last_vpn_check, killswitch_enabled,
                   max_consecutive_failures, clientVars, backoffVars,
                   natVars, storeVars, configVars, localVars>>
    /\ UNCHANGED <<ksVars, envVars, vpnSeenHealthy, setupSucceeded, tampered>>

\* _wait_for_qbittorrent, lines 263-273
WaitForQbittorrent ==
    /\ pc = "WAITING_QBT"
    /\ \/ \* is_reachable() is true
          /\ EndTick("MAPPING_PORT", 0, FALSE)
          /\ Result(TRUE, None, <<"is_reachable", "get_version">>)
       \/ \* not reachable: sleep QBT_AVAILABILITY_POLL_INTERVAL
          /\ EndTick(state, consecutive_failures, FALSE)
          /\ Result(FALSE, None, <<"is_reachable", "sleep">>)
    /\ UNCHANGED <<shutdown_requested, current_port, last_port_refresh,
                   last_vpn_check, killswitch_enabled,
                   max_consecutive_failures, clientVars, backoffVars,
                   natVars, storeVars, configVars, localVars>>
    /\ UNCHANGED <<ksVars, envVars, vpnSeenHealthy, setupSucceeded, tampered>>

\* The label _request_port_mapping chooses after a successful refresh:
\* probe is the client's listen_port, or "error" when the probe raised
AfterRefresh(old_port, new_port, probe) ==
    IF old_port # new_port THEN "CONFIGURING"
    ELSE IF probe = "error" THEN "CONFIGURING"
    ELSE IF probe # new_port THEN "CONFIGURING"
    ELSE "MONITORING"

\* natpmp.py, refresh_mapping / request_both_protocols: tcp and udp are what
\* request_mapping returned for each protocol, a public port or "error" (natpmpc
\* exits non-zero, times out, is missing, or prints nothing PORT_PATTERN
\* matches).  The UDP request is made only after TCP succeeded; the TCP port
\* is the result.
RefreshMapping(tcp, udp) ==
    IF tcp = "error" THEN "error"
    ELSE IF udp = "error" THEN "error"
    ELSE tcp

\* a failed refresh that also forgets the port it had
NatPmpFailureForgetsPort ==
    /\ CanFail
    /\ EndTick("WAITING_VPN", consecutive_failures + 1, TRUE)
    /\ Result(FALSE, "NatPmpError", <<"refresh_mapping">>)
    /\ current_port' = None
    /\ UNCHANGED <<last_port_refresh, file_last_port, faults>>

\* _request_port_mapping, lines 310-314: refresh_mapping() raised NatPmpError
NatPmpFailure ==
    /\ CanFail
    /\ EndTick("WAITING_VPN", consecutive_failures + 1, TRUE)
    /\ Result(FALSE, "NatPmpError", <<"refresh_mapping">>)
    /\ UNCHANGED <<current_port, last_port_refresh, file_last_port, faults>>

\* _request_port_mapping, lines 275-314.  A _save_state that cannot create
\* the directory raises OSError after the label and the counter were set.
\* counted: a failed write of the state file is one of the MaxFaults
\* disturbances of the behaviour.
RequestPortMappingOn(counted) ==
    /\ pc = "MAPPING_PORT"
    /\ \E tcp \in Ports \cup {"error"}, udp \in Ports \cup {"error"} :
          LET new_port == RefreshMapping(tcp, udp) IN
          IF new_port = "error"
          THEN NatPmpFailure
          ELSE \E probe \in {qbt_port, "error"},
                  save \in {"ok", "open_failed", "mkdir_failed"} :
                  /\ current_port' = new_port
                  /\ last_port_refresh' = "set"
                  /\ (counted /\ save # "ok") => faults < MaxFaults
                  /\ faults' = IF counted /\ save # "ok" THEN faults + 1 ELSE faults
                  /\ file_last_port' = IF save = "ok" THEN new_port
                                       ELSE file_last_port
                  /\ Result(TRUE,
                            IF current_port = new_port /\ probe = "error"
                               THEN "QBittorrentError" ELSE None,
                            <<"refresh_mapping">>
                            \o (IF current_port = new_port
                                   THEN <<"get_listening_port">> ELSE <<>>)
                            \o <<"_save_state">>)
                  /\ LET st == AfterRefresh(current_port, new_port, probe) IN
                     IF save = "mkdir_failed"
                     THEN /\ state' = st
                          /\ consecutive_failures' = 0
                          /\ pc' = "save_raised"
                          /\ UNCHANGED <<tickHandler, tickFailed, notified>>
                     ELSE EndTick(st, 0, FALSE)
    /\ UNCHANGED <<shutdown_requested, last_vpn_check, killswitch_enabled,
                   max_consecutive_failures, clientVars, backoffVars,
                   natVars, storeVars, configVars, localVars>>
    /\ UNCHANGED <<chainExists, chainRules, output, active, kpc, kop, kinner, kidx, klog,
                   kfailed, kraised, kvalue, kprev, kbefore>>
    /\ UNCHANGED <<qbt_port, qbt_iface, vpnSeenHealthy, setupSucceeded, tampered>>

\* _request_port_mapping in a behaviour of at most MaxFaults disturbances
RequestPortMapping == RequestPortMappingOn(TRUE)

\* run(), lines 221-223: the OSError of _save_state left the MAPPING_PORT tick
SaveStateRaised ==
    /\ pc = "save_raised"
    /\ TickRaised
    /\ Result(FALSE, "OSError", tickResult.calls)
    /\ UNCHANGED <<shutdown_requested, current_port, last_port_refresh,
                   last_vpn_check, killswitch_enabled,
                   max_consecutive_failures, clientVars, backoffVars,
                   natVars, storeVars, configVars, localVars>>
    /\ UNCHANGED <<ksVars, envVars, vpnSeenHealthy, setupSucceeded, tampered>>

\* _configure_qbittorrent, lines 328-344: needs_update
NeedsUpdate ==
    \/ qbt_port # current_port
    \/ qbt_iface # qbt_interface_binding

\* _configure_qbittorrent, lines 325-350: its client calls, in order
ConfigureCalls ==
    <<"get_listening_port", "get_network_interface", "update_port_and_interface">>

\* a handler that logs the QBittorrentError and leaves the counter alone
ConfigureFailureUncounted ==
    /\ CanFail
    /\ EndTick(state, consecutive_failures, FALSE)
    /\ \E n \in 1..(IF NeedsUpdate THEN 3 ELSE 2) :
          Result(FALSE, "QBittorrentError", SubSeq(ConfigureCalls, 1, n))
    /\ UNCHANGED <<qbt_port, qbt_iface>>

\* _configure_qbittorrent, lines 356-358: a client call raised
\* QBittorrentError, one of the two reads or the update when port or
\* interface differ
ConfigureFailure ==
    /\ CanFail
    /\ EndTick(HandleFailureState(state, consecutive_failures),
               consecutive_failures + 1, TRUE)
    /\ \E n \in 1..(IF NeedsUpdate THEN 3 ELSE 2) :
          Result(FALSE, "QBittorrentError", SubSeq(ConfigureCalls, 1, n))
    /\ UNCHANGED <<qbt_port, qbt_iface>>

\* _configure_qbittorrent, lines 316-358
ConfigureQbittorrent ==
    /\ pc = "CONFIGURING"
    /\ \/ \* no port available
          /\ current_port = None
          /\ EndTick("MAPPING_PORT", consecutive_failures, FALSE)
          /\ Result(FALSE, None, <<>>)
          /\ UNCHANGED <<qbt_port, qbt_iface>>
       \/ /\ current_port # None
          /\ ConfigureFailure
       \/ \* the client answers; update when port or interface differ
          /\ current_port # None
          /\ qbt_port' = IF NeedsUpdate THEN current_port ELSE qbt_port
          /\ qbt_iface' = IF NeedsUpdate THEN qbt_interface_binding ELSE qbt_iface
          /\ EndTick("MONITORING", 0, FALSE)
          /\ Result(TRUE, None, SubSeq(ConfigureCalls, 1, IF NeedsUpdate THEN 3 ELSE 2))
    /\ UNCHANGED <<shutdown_requested, current_port, last_port_refresh,
                   last_vpn_check, killswitch_enabled,
                   max_consecutive_failures, clientVars, backoffVars,
                   natVars, storeVars, configVars, localVars>>
    /\ UNCHANGED <<ksVars, file_last_port, vpnSeenHealthy, setupSucceeded, tampered>>

\* _monitor, lines 387-391: the two client checks, in order
ClientChecks == <<"is_reachable", "verify_interface_binding">>

\* a _monitor that stamps last_vpn_check before it looks at the answer
MonitorVpnUnhealthyStamped ==
    /\ EndTick("WAITING_VPN", consecutive_failures, FALSE)
    /\ Result(FALSE, None, <<"is_healthy">>)
    /\ last_vpn_check' = "set"
    /\ UNCHANGED <<ksVars, vpnSeenHealthy>>

\* _monitor, lines 370-373: is_healthy() returned false
MonitorVpnUnhealthy ==
    /\ EndTick("WAITING_VPN", consecutive_failures, FALSE)
    /\ Result(FALSE, None, <<"is_healthy">>)
    /\ UNCHANGED <<ksVars, last_vpn_check, vpnSeenHealthy>>

\* _monitor, lines 360-401, up to the call of killswitch.verify()
Monitor ==
    /\ pc = "MONITORING"
    /\ \E vpn_due \in {TRUE, last_vpn_check = None},
          refresh_due \in {TRUE, last_port_refresh = None} :
       LET checked == IF vpn_due THEN <<"is_healthy">> ELSE <<>> IN
       \/ \* the health check is due and raises WireGuardError
          /\ vpn_due
          /\ CanFail
          /\ TickRaised
          /\ Result(FALSE, "WireGuardError", checked)
          /\ UNCHANGED <<ksVars, last_vpn_check, vpnSeenHealthy>>
       \/ \* the health check is due and fails
          /\ vpn_due
          /\ MonitorVpnUnhealthy
       \/ \* the health check passes or is not due
          /\ last_vpn_check' = IF vpn_due THEN "set" ELSE last_vpn_check
          /\ vpnSeenHealthy' = (vpnSeenHealthy \/ vpn_due)
          /\ \/ /\ refresh_due
                /\ EndTick("MAPPING_PORT", consecutive_failures, FALSE)
                /\ Result(FALSE, None, checked)
                /\ UNCHANGED ksVars
             \/ \* the client is unreachable (exc = None), or the binding
                \* check raises QBittorrentError, caught at line 396
                /\ ~refresh_due
                /\ \E exc \in {None, "QBittorrentError"} :
                      /\ EndTick("WAITING_QBT", consecutive_failures, FALSE)
                      /\ Result(FALSE, exc,
                                checked \o (IF exc = None THEN <<"is_reachable">>
                                            ELSE ClientChecks))
                /\ UNCHANGED ksVars
             \/ /\ ~refresh_due
                /\ qbt_iface # qbt_interface_binding
                /\ EndTick("CONFIGURING", consecutive_failures, FALSE)
                /\ Result(FALSE, None, checked \o ClientChecks)
                /\ UNCHANGED ksVars
             \/ /\ ~refresh_due
                /\ qbt_iface = qbt_interface_binding
                /\ ~killswitch_enabled
                /\ EndTick(state, consecutive_failures, FALSE)
                /\ Result(TRUE, None, checked \o ClientChecks \o <<"sleep">>)
                /\ UNCHANGED ksVars
             \/ /\ ~refresh_due
                /\ qbt_iface = qbt_interface_binding
                /\ killswitch_enabled
                /\ StartCall("verify")
                /\ pc' = "monitor_verify"
                /\ Result(FALSE, None, checked \o ClientChecks \o <<"verify">>)
                /\ UNCHANGED <<state, consecutive_failures, tickHandler, tickFailed,
                               notified>>
    /\ UNCHANGED <<shutdown_requested, current_port, last_port_refresh, killswitch_enabled,
                   max_consecutive_failures, clientVars, backoffVars,
                   natVars, storeVars, configVars, localVars>>
    /\ UNCHANGED <<envVars, setupSucceeded, tampered>>

\* _monitor, lines 401-404, after killswitch.verify() returned or raised
MonitorVerifyDone ==
    /\ pc = "monitor_verify"
    /\ kpc = "idle"
    /\ \/ \* verify() raised: the exception leaves _tick
          /\ kraised
          /\ TickRaised
          /\ Result(FALSE, "KillswitchError", tickResult.calls)
          /\ KsForget
       \/ \* the rules are in place: sleep
          /\ ~kraised
          /\ kvalue
          /\ EndTick(state, consecutive_failures, FALSE)
          /\ Result(TRUE, None, Append(tickResult.calls, "sleep"))
          /\ KsForget
       \/ \* rules missing: re-establish
          /\ ~kraised
          /\ ~kvalue
          /\ StartCall("setup")
          /\ pc' = "monitor_setup"
          /\ Result(FALSE, None, Append(tickResult.calls, "setup"))
          /\ UNCHANGED <<state, consecutive_failures, tickHandler, tickFailed, notified>>
    /\ UNCHANGED <<shutdown_requested, current_port, last_port_refresh,
                   last_vpn_check, killswitch_enabled,
                   max_consecutive_failures, clientVars, backoffVars,
                   natVars, storeVars, configVars, localVars>>
    /\ UNCHANGED <<envVars, vpnSeenHealthy, setupSucceeded, tampered>>

\* _monitor, lines 404-415, after killswitch.setup() returned or raised
MonitorSetupDone ==
    /\ pc = "monitor_setup"
    /\ kpc = "idle"
    /\ IF kraised
       THEN /\ EndTick(HandleFailureState(state, consecutive_failures),
                       consecutive_failures + 1, TRUE)
            /\ Result(FALSE, "KillswitchError", Append(tickResult.calls, "sleep"))
            /\ UNCHANGED setupSucceeded
       ELSE /\ EndTick(state, consecutive_failures, FALSE)
            /\ Result(FALSE, None, Append(tickResult.calls, "sleep"))
            /\ setupSucceeded' = TRUE
    /\ UNCHANGED <<shutdown_requested, current_port, last_port_refresh,
                   last_vpn_check, killswitch_enabled,
                   max_consecutive_failures, clientVars, backoffVars,
                   natVars, storeVars, configVars, localVars>>
    /\ KsForget
    /\ UNCHANGED <<envVars, vpnSeenHealthy, tampered>>

\* _recover that starts over with a fresh failure counter
RecoverResetting ==
    /\ pc = "RECOVERING"
    /\ EndTick("WAITING_VPN", 0, FALSE)
    /\ Result(FALSE, None, <<"_calculate_backoff", "sleep">>)
    /\ UNCHANGED <<shutdown_requested, current_port, last_port_refresh,
                   last_vpn_check, killswitch_enabled,
                   max_consecutive_failures, clientVars, backoffVars,
                   natVars, storeVars, configVars, localVars>>
    /\ UNCHANGED <<ksVars, envVars, vpnSeenHealthy, setupSucceeded, tampered>>

\* _recover, lines 417-428: sleep the backoff, then WAITING_VPN
Recover ==
    /\ pc = "RECOVERING"
    /\ EndTick("WAITING_VPN", consecutive_failures, FALSE)
    /\ Result(FALSE, None, <<"_calculate_backoff", "sleep">>)
    /\ UNCHANGED <<shutdown_requested, current_port, last_port_refresh,
                   last_vpn_check, killswitch_enabled,
                   max_consecutive_failures, clientVars, backoffVars,
                   natVars, storeVars, configVars, localVars>>
    /\ UNCHANGED <<ksVars, envVars, vpnSeenHealthy, setupSucceeded, tampered>>

\* _cleanup, lines 442-451: remove the killswitch
Cleanup ==
    /\ pc = "cleanup"
    /\ IF killswitch_enabled
       THEN StartCall("cleanup") /\ pc' = "cleanup_ks"
       ELSE pc' = "cleanup_save" /\ UNCHANGED ksVars
    /\ UNCHANGED <<state, shutdown_requested, consecutive_failures, current_port,
                   last_port_refresh, last_vpn_check, killswitch_enabled,
                   max_consecutive_failures, clientVars, backoffVars,
                   natVars, storeVars, configVars, localVars>>
    /\ UNCHANGED <<envVars, histVars>>

\* _cleanup, lines 453-459: save the final state, STOPPING=1.  A _save_state
\* that cannot create the directory raises OSError out of run(): no STOPPING=1.
CleanupSave ==
    /\ \/ pc = "cleanup_ks" /\ kpc = "idle"
       \/ pc = "cleanup_save"
    /\ \E save \in {"ok", "open_failed", "mkdir_failed"} :
          /\ save # "ok" => faults < MaxFaults
          /\ faults' = IF save = "ok" THEN faults ELSE faults + 1
          /\ file_last_port' = IF save = "ok" THEN current_port
                               ELSE file_last_port
          /\ pc' = IF save = "mkdir_failed" THEN "crashed" ELSE "done"
          /\ notified' = IF save = "mkdir_failed" THEN notified
                          ELSE [notified EXCEPT !.stopping = @ + 1]
    /\ UNCHANGED <<state, shutdown_requested, consecutive_failures, current_port,
                   last_port_refresh, last_vpn_check, killswitch_enabled,
                   max_consecutive_failures, clientVars, backoffVars,
                   natVars, storeVars, configVars, localVars>>
    /\ UNCHANGED <<chainExists, chainRules, output, active, kpc, kop, kinner, kidx, klog,
                   kfailed, kraised, kvalue, kprev, kbefore>>
    /\ UNCHANGED <<qbt_port, qbt_iface, vpnSeenHealthy, setupSucceeded, tampered,
                   tickHandler, tickFailed, tickResult>>

\* Someone edits the client's preferences in its Web UI, between two ticks
ExternalQbtEdit ==
    /\ pc = "loop"
    /\ faults < MaxFaults
    /\ faults' = faults + 1
    /\ \E p \in QbtPorts, i \in QbtIfaces :
          /\ <<p, i>> # <<qbt_port, qbt_iface>>
          /\ qbt_port' = p
          /\ qbt_iface' = i
    /\ UNCHANGED <<chainExists, chainRules, output, active, kpc, kop, kinner, kidx, klog,
                   kfailed, kraised, kvalue, kprev, kbefore>>
    /\ UNCHANGED <<svVars, file_last_port, histVars>>

\* Someone else removes a rule of the chain or the jump rule, between two ticks
ExternalTamper ==
    /\ pc = "loop"
    /\ kpc = "idle"
    /\ killswitch_enabled
    /\ faults < MaxFaults
    /\ faults' = faults + 1
    /\ tampered' = TRUE
    /\ \/ \E r \in {"vpn", "rej"} :
             /\ RuleExists(chainRules, r)
             /\ chainRules' = RemoveFirst(chainRules, r)
             /\ UNCHANGED output
       \/ /\ RuleExists(output, "jump")
          /\ output' = RemoveFirst(output, "jump")
          /\ UNCHANGED chainRules
    /\ UNCHANGED <<chainExists, active, kpc, kop, kinner, kidx, klog, kfailed, kraised,
                   kvalue, kprev, kbefore>>
    /\ UNCHANGED <<svVars, envVars, vpnSeenHealthy, setupSucceeded, tickHandler, tickFailed,
                   tickResult, notified>>

\* What a crash of an earlier run can leave in the packet filter: nothing,
\* a chain under construction (rules appended in order, jump rule last), the
\* complete killswitch, or a chain under removal (flushed, jump rule next)
ResidualFilter ==
    \/ /\ chainExists = FALSE
       /\ chainRules = <<>>
       /\ output = <<"other">>
    \/ /\ chainExists = TRUE
       /\ chainRules = <<"lo">>
       /\ output = <<"other">>
    \/ /\ chainExists = TRUE
       /\ chainRules \in {FourRules, <<>>}
       /\ output = <<"jump", "other">>

\* QBouncerService.__init__: the configuration, and _load_state
Init ==
    /\ LocalIdle
    /\ killswitch_enabled \in BOOLEAN
    /\ max_consecutive_failures \in 1..MaxThreshold
    /\ IF killswitch_enabled
       THEN ResidualFilter
       ELSE chainExists = FALSE /\ chainRules = <<>> /\ output = <<>>
    /\ KsInit
    /\ state = "INITIALIZING"
    /\ shutdown_requested = FALSE
    /\ pc = "start"
    /\ consecutive_failures = 0
    /\ file_last_port \in {"absent", "51413"}
    /\ current_port = IF file_last_port = "absent" THEN None ELSE file_last_port
    /\ last_port_refresh = IF file_last_port = "absent" THEN None ELSE "loaded"
    /\ last_vpn_check = None
    /\ qbt_port = "6881"
    /\ qbt_iface = ""
    /\ vpnSeenHealthy = FALSE
    /\ setupSucceeded = FALSE
    /\ tampered = FALSE
    /\ tickHandler = None
    /\ tickFailed = FALSE
    /\ tickResult = NoResult
    /\ notified = NotNotified
    /\ ClientInit
    /\ NatPmpInit
    /\ StoreIdle
    /\ ConfigDefault

Next ==
    \/ Start
    \/ HandleSignal
    \/ LoopTest
    \/ Tick
    \/ WaitForVpn
    \/ WaitForVpnSetupDone
    \/ WaitForQbittorrent
    \/ RequestPortMapping
    \/ SaveStateRaised
    \/ ConfigureQbittorrent
    \/ Monitor
    \/ MonitorVerifyDone
    \/ MonitorSetupDone
    \/ Recover
    \/ Cleanup
    \/ CleanupSave
    \/ ExternalQbtEdit
    \/ ExternalTamper
    \/ SetupChk
    \/ FlushChain
    \/ RemoveJumpRule
    \/ DeleteChain
    \/ CreateChain
    \/ AddChainRules
    \/ AddJumpRule
    \/ Verify

Spec == Init /\ [][Next]_vars

\* ------------------------------------------- one MONITORING tick on its own
\* The supervisor between two ticks in MONITORING, as a CONFIGURING tick left
\* it: the port mapped and saved, the client configured, and the killswitch as
\* setup() installed it less what somebody else has removed since.
TamperedFilter ==
    /\ chainExists = TRUE
    /\ \E gone \in SUBSET {"vpn", "rej"} :
          chainRules = SelectSeq(FourRules, LAMBDA r : r \notin gone)
    /\ output \in {<<"jump", "other">>, <<"other">>, <<"jump">>, <<>>}

MonitorInit ==
    /\ LocalIdle
    /\ killswitch_enabled = TRUE
    /\ max_consecutive_failures \in 1..MaxThreshold
    /\ TamperedFilter
    /\ active = TRUE
    /\ kpc = "idle"
    /\ kop = None
    /\ kinner = FALSE
    /\ kidx = 1
    /\ klog = <<>>
    /\ kfailed = FALSE
    /\ kraised = FALSE
    /\ kvalue = FALSE
    /\ kprev = [op |-> None, raised |-> FALSE, failed |-> FALSE, log |-> <<>>]
    /\ kbefore = Filter
    /\ faults = 0
    /\ state = "MONITORING"
    /\ shutdown_requested = FALSE
    /\ pc = "loop"
    /\ consecutive_failures = 0
    /\ file_last_port = "51413"
    /\ current_port = "51413"
    /\ last_port_refresh = "set"
    /\ last_vpn_check \in {None, "set"}
    /\ qbt_port = "51413"
    /\ qbt_iface = qbt_interface_binding
    /\ vpnSeenHealthy = TRUE
    /\ setupSucceeded = TRUE
    /\ tampered = ~(RuleExists(output, "jump") /\ chainRules = FourRules)
    /\ tickHandler = "CONFIGURING"
    /\ tickFailed = FALSE
    /\ tickResult = [ok |-> TRUE, caught |-> None,
                     calls |-> SubSeq(ConfigureCalls, 1, 2)]
    /\ notified = [ready |-> 1, watchdog |-> 1, stopping |-> 0]
    /\ ClientInit
    /\ NatPmpInit
    /\ StoreIdle
    /\ ConfigDefault

\* The ticks that follow while the supervisor stays in MONITORING
MonitorNext ==
    \/ LoopTest
    \/ Tick
    \/ Monitor
    \/ MonitorVerifyDone
    \/ MonitorSetupDone
    \/ SetupChk
    \/ FlushChain
    \/ RemoveJumpRule
    \/ DeleteChain
    \/ CreateChain
    \/ AddChainRules
    \/ AddJumpRule
    \/ Verify

MonitorSpec == MonitorInit /\ [][MonitorNext]_vars

\* ------------------------------------------------- a run in good weather
\* The supervisor between two ticks, anywhere in its cycle and with any
\* failure count its label allows, not asked to stop; from here on the VPN is
\* healthy, the client reachable and accepting updates, NAT-PMP refreshes
\* succeed, packet-filter commands succeed (faults = MaxFaults: no disturbance
\* left) and no signal arrives.  Writing the state file may still fail.
LiveInit ==
    /\ LocalIdle
    /\ NatPmpInit
    /\ StoreIdle
    /\ ClientInit
    /\ ConfigDefault
    /\ killswitch_enabled \in BOOLEAN
    /\ max_consecutive_failures \in 1..MaxThreshold
    /\ IF killswitch_enabled
       THEN chainExists = TRUE /\ chainRules = FourRules /\ output = <<"jump", "other">>
       ELSE chainExists = FALSE /\ chainRules = <<>> /\ output = <<>>
    /\ active = killswitch_enabled
    /\ kpc = "idle"
    /\ kop = None
    /\ kinner = FALSE
    /\ kidx = 1
    /\ klog = <<>>
    /\ kfailed = FALSE
    /\ kraised = FALSE
    /\ kvalue = FALSE
    /\ kprev = [op |-> None, raised |-> FALSE, failed |-> FALSE, log |-> <<>>]
    /\ kbefore = Filter
    /\ faults = MaxFaults
    /\ state \in Handlers
    /\ shutdown_requested = FALSE
    /\ pc = "loop"
    /\ consecutive_failures \in
          IF state = "RECOVERING" THEN {max_consecutive_failures}
          ELSE IF state = "WAITING_VPN" THEN 0..max_consecutive_failures
          ELSE 0..(max_consecutive_failures - 1)
    /\ current_port \in IF state \in {"CONFIGURING", "MONITORING"}
                           THEN {"51413"} ELSE {None, "51413"}
    /\ last_port_refresh = IF current_port = None THEN None ELSE "set"
    /\ file_last_port = IF current_port = None THEN "absent" ELSE current_port
    /\ last_vpn_check = IF state = "MONITORING" THEN "set" ELSE None
    /\ qbt_port \in {"6881", "51413"}
    /\ qbt_iface \in QbtIfaces
    /\ vpnSeenHealthy = (state # "WAITING_VPN")
    /\ setupSucceeded = killswitch_enabled
    /\ tampered = FALSE
    /\ tickHandler = None
    /\ tickFailed = FALSE
    /\ tickResult = NoResult
    /\ notified = [ready |-> 1, watchdog |-> 1, stopping |-> 0]

\* _wait_for_vpn with is_healthy() true
VpnHealthy == WaitForVpn /\ (tickResult'.ok \/ pc' = "wait_vpn_setup")

\* _wait_for_qbittorrent with is_reachable() true
QbtReachable == WaitForQbittorrent /\ tickResult'.ok

\* _request_port_mapping with refresh_mapping() returning a port and the
\* probe answered; the write of the state file succeeds or fails
PortMapped == RequestPortMappingOn(FALSE) /\ tickResult'.caught = None

\* _configure_qbittorrent with every client call answered
QbtConfigured == ConfigureQbittorrent /\ tickResult'.caught = None

\* _monitor with the VPN healthy and the client reachable
MonitorHealthy ==
    /\ Monitor
    /\ tickResult'.caught = None
    /\ state' \notin {"WAITING_VPN", "WAITING_QBT"}

\* _monitor, lines 377-383: the refresh has become due
RefreshDue == MonitorHealthy /\ state' = "MAPPING_PORT"

LiveNext ==
    \/ LoopTest
    \/ Tick
    \/ VpnHealthy
    \/ WaitForVpnSetupDone
    \/ QbtReachable
    \/ PortMapped
    \/ SaveStateRaised
    \/ QbtConfigured
    \/ MonitorHealthy
    \/ MonitorVerifyDone
    \/ Recover
    \/ SetupChk
    \/ FlushChain
    \/ RemoveJumpRule
    \/ DeleteChain
    \/ CreateChain
    \/ AddChainRules
    \/ AddJumpRule
    \/ Verify

\* run() keeps ticking; every MONITORING tick sleeps, so the refresh comes due
LiveSpec ==
    /\ LiveInit
    /\ [][LiveNext]_vars
    /\ WF_vars(LiveNext)
    /\ SF_vars(RefreshDue)

\* ------------------------------------------------------- QBittorrentClient
\* Every HTTP request of the client is one step.  The server answers a request
\* as it likes; it applies the preferences of a request it answers with 200,
\* all keys of the JSON object at once, and may have applied those of a
\* request whose answer timed out.
LoginEndpoint == "/api/v2/auth/login"
SetPreferencesEndpoint == "/api/v2/app/setPreferences"
PreferencesEndpoint == "/api/v2/app/preferences"
VersionEndpoint == "/api/v2/app/version"

NoBody == <<>>

\* Answers to /api/v2/auth/login: 200 "Ok.", 200 "Fails.", an HTTP error
\* status, no answer
LoginResponses == {"Ok.", "Fails.", "403", "timeout"}

\* Answers to an API request
Responses == {"200", "403", "500", "timeout"}

\* update_port_and_interface sending the two preferences one after the other
UpdatePreferencesSequential(port, interface) ==
    << [listen_port |-> port], [current_network_interface |-> interface] >>

\* update_port_and_interface: the preference objects it passes to
\* set_preferences, in order (one object with both keys)
UpdatePreferences(port, interface) ==
    << [listen_port |-> port, current_network_interface |-> interface] >>

\* The server applies a preferences object
ApplyPreferences(body) ==
    /\ qbt_port' = IF "listen_port" \in DOMAIN body THEN body.listen_port ELSE qbt_port
    /\ qbt_iface' = IF "current_network_interface" \in DOMAIN body
                    THEN body.current_network_interface
                    ELSE qbt_iface

\* The request _request is about to send: the first set_preferences object
\* still to post, or the GET of the method
CurrentRequest ==
    IF qcall = "update_port_and_interface"
    THEN [endpoint |-> SetPreferencesEndpoint, body |-> Head(qtodo)]
    ELSE IF qcall = "get_preferences"
    THEN [endpoint |-> PreferencesEndpoint, body |-> NoBody]
    ELSE [endpoint |-> VersionEndpoint, body |-> NoBody]

Sent(req, resp, applied) ==
    qlog' = Append(qlog, [endpoint |-> req.endpoint, body |-> req.body,
                          resp |-> resp, applied |-> applied])

\* QBittorrentError leaves the public method
ClientRaise ==
    /\ qpc' = "idle"
    /\ qraised' = TRUE
    /\ qtodo' = <<>>

\* _request returned its response: the method goes on to its next
\* set_preferences call, or returns
RequestReturned ==
    /\ qraised' = FALSE
    /\ IF qcall = "update_port_and_interface" /\ Len(qtodo) > 1
       THEN qtodo' = Tail(qtodo) /\ qpc' = "ensure"
       ELSE qtodo' = <<>> /\ qpc' = "idle"

\* What no step of the client touches
ClientVarsOnly ==
    UNCHANGED <<ksVars, state, shutdown_requested, pc, consecutive_failures,
                current_port, last_port_refresh, last_vpn_check, killswitch_enabled,
                max_consecutive_failures, backoffVars, natVars, storeVars,
                configVars, localVars, file_last_port, histVars>>

\* The supervisor's calls: is_reachable / get_version (GET version),
\* get_listening_port / get_network_interface (GET preferences),
\* update_port_and_interface(current_port, qbt_interface_binding)
ApiCall ==
    /\ pc = "client"
    /\ qpc = "idle"
    /\ \E m \in {"get_version", "get_preferences", "update_port_and_interface"} :
          /\ qcall' = m
          /\ IF m = "update_port_and_interface"
             THEN \E port \in Ports : qtodo' = UpdatePreferences(port, qbt_interface_binding)
             ELSE qtodo' = <<>>
    /\ qpc' = "ensure"
    /\ qlog' = <<>>
    /\ qraised' = FALSE
    /\ UNCHANGED <<username, authenticated, qbt_port, qbt_iface>>
    /\ ClientVarsOnly

\* _login, lines 63-85: "Ok." sets _authenticated, anything else raises
Login(next) ==
    \E resp \in LoginResponses :
        /\ Sent([endpoint |-> LoginEndpoint, body |-> NoBody], resp, FALSE)
        /\ IF resp = "Ok."
           THEN /\ authenticated' = TRUE
                /\ qpc' = next
                /\ UNCHANGED <<qtodo, qraised>>
           ELSE /\ ClientRaise
                /\ UNCHANGED authenticated

\* an _ensure_authenticated that logs in although no username is configured
EnsureAuthenticatedAnonymous ==
    /\ qpc = "ensure"
    /\ IF authenticated
       THEN /\ qpc' = "attempt"
            /\ UNCHANGED <<authenticated, qtodo, qlog, qraised>>
       ELSE Login("attempt")
    /\ UNCHANGED <<username, qcall, qbt_port, qbt_iface>>
    /\ ClientVarsOnly

\* _request, line 106: _ensure_authenticated before the first attempt
EnsureAuthenticated ==
    /\ qpc = "ensure"
    /\ IF ~username \/ authenticated
       THEN /\ qpc' = "attempt"
            /\ UNCHANGED <<authenticated, qtodo, qlog, qraised>>
       ELSE Login("attempt")
    /\ UNCHANGED <<username, qcall, qbt_port, qbt_iface>>
    /\ ClientVarsOnly

\* The server's part of a request: whether it applies the body
ServerApplies(req, resp, applied) ==
    /\ applied => req.endpoint = SetPreferencesEndpoint
    /\ resp = "200" /\ req.endpoint = SetPreferencesEndpoint => applied
    /\ resp \in {"403", "500"} => ~applied
    /\ IF applied THEN ApplyPreferences(req.body) ELSE UNCHANGED <<qbt_port, qbt_iface>>

\* _request, lines 112-122: the first attempt.  A 403 with a username
\* configured drops the session, every other non-2xx answer raises
Attempt ==
    /\ qpc = "attempt"
    /\ \E resp \in Responses, applied \in BOOLEAN :
          /\ ServerApplies(CurrentRequest, resp, applied)
          /\ Sent(CurrentRequest, resp, applied)
          /\ IF resp = "403" /\ username
             THEN /\ authenticated' = FALSE
                  /\ qpc' = "reauth"
                  /\ UNCHANGED <<qtodo, qraised>>
             ELSE IF resp = "200"
             THEN RequestReturned /\ UNCHANGED authenticated
             ELSE ClientRaise /\ UNCHANGED authenticated
    /\ UNCHANGED <<username, qcall>>
    /\ ClientVarsOnly

\* a re-authentication that sends no login request
ReauthenticateWithoutLogin ==
    /\ qpc = "reauth"
    /\ authenticated' = TRUE
    /\ qpc' = "retry"
    /\ UNCHANGED <<username, qcall, qtodo, qlog, qraised, qbt_port, qbt_iface>>
    /\ ClientVarsOnly

\* _request, lines 117-118: _ensure_authenticated after the 403; the
\* QBittorrentError of a failed login leaves _request
Reauthenticate ==
    /\ qpc = "reauth"
    /\ Login("retry")
    /\ UNCHANGED <<username, qcall, qbt_port, qbt_iface>>
    /\ ClientVarsOnly

\* _request, lines 119-122: the one retry; raise_for_status on its answer
Retry ==
    /\ qpc = "retry"
    /\ \E resp \in Responses, applied \in BOOLEAN :
          /\ ServerApplies(CurrentRequest, resp, applied)
          /\ Sent(CurrentRequest, resp, applied)
          /\ IF resp = "200" THEN RequestReturned ELSE ClientRaise
    /\ UNCHANGED <<username, authenticated, qcall>>
    /\ ClientVarsOnly

\* ---------------------------------------------------- the client on its own
QbtInit ==
    /\ LocalIdle
    /\ chainExists = FALSE /\ chainRules = <<>> /\ output = <<>>
    /\ KsInit
    /\ SvInitCold
    /\ ClientInit
    /\ NatPmpInit
    /\ StoreIdle
    /\ pc = "client"
    /\ killswitch_enabled = FALSE
    /\ max_consecutive_failures = 1
    /\ failure_backoff_base = 1
    /\ failure_backoff_max = 1
    /\ natpmp_refresh_interval = 1
    /\ natpmp_lease_lifetime = 2
    /\ other_fields_valid = TRUE
    /\ username \in BOOLEAN
    /\ qbt_port = "6881"
    /\ qbt_iface = ""

QbtNext ==
    \/ ApiCall
    \/ EnsureAuthenticated
    \/ Attempt
    \/ Reauthenticate
    \/ Retry

QbtSpec == QbtInit /\ [][QbtNext]_vars

\* The setPreferences requests of the call's log
SetPreferencesSent == SelectSeq(qlog, LAMBDA r : r.endpoint = SetPreferencesEndpoint)

\* The API requests (all but the logins) of the call's log
ApiSent == SelectSeq(qlog, LAMBDA r : r.endpoint # LoginEndpoint)

BothKeys == {"listen_port", "current_network_interface"}

\* C12 as stated: a completed update_port_and_interface that got past its
\* authentication has sent exactly one setPreferences request, with exactly
\* the two keys.
C12_ExactlyOneRequest ==
    (qpc = "idle" /\ qcall = "update_port_and_interface" /\ SetPreferencesSent # <<>>) =>
        /\ Len(SetPreferencesSent) = 1
        /\ DOMAIN SetPreferencesSent[1].body = BothKeys

\* C12: update_port_and_interface makes one set_preferences call; every
\* setPreferences request of it carries exactly listen_port and
\* current_network_interface, a second request is only the retry of one
\* answered 403, at most one request is applied, and no step sets a new
\* listen_port while leaving the interface different from the binding.
C12_SingleAtomicUpdate ==
    /\ [](qcall = "update_port_and_interface" =>
            /\ Len(SetPreferencesSent) <= 2
            /\ \A i \in DOMAIN SetPreferencesSent :
                  DOMAIN SetPreferencesSent[i].body = BothKeys
            /\ Len(SetPreferencesSent) = 2 =>
                  /\ SetPreferencesSent[1].resp = "403"
                  /\ SetPreferencesSent[2].body = SetPreferencesSent[1].body
            /\ Cardinality({i \in DOMAIN SetPreferencesSent :
                               SetPreferencesSent[i].applied}) <= 1)
    /\ [][qbt_port' # qbt_port => qbt_iface' = qbt_interface_binding]_vars

\* the first setPreferences was answered 403, the retry was applied
C12_Witness ==
    /\ qpc = "idle"
    /\ qcall = "update_port_and_interface"
    /\ ~qraised
    /\ Len(SetPreferencesSent) = 2
    /\ qbt_port = "42000"
    /\ qbt_iface = qbt_interface_binding

\* The requests sent after the first API attempt of the call
AfterFirstAttempt ==
    LET k == CHOOSE i \in DOMAIN qlog : /\ qlog[i].endpoint # LoginEndpoint
                                        /\ \A j \in 1..(i - 1) : qlog[j].endpoint = LoginEndpoint
    IN  SubSeq(qlog, k + 1, Len(qlog))

\* A call with a username configured has returned or raised, and its first
\* attempt was answered 403
Answered403 ==
    /\ qpc = "idle"
    /\ username
    /\ ApiSent # <<>>
    /\ ApiSent[1].resp = "403"

\* C13 as stated: the 403 is followed by exactly one login and exactly one
\* retry of the same request.
C13_OneLoginOneRetry ==
    Answered403 =>
        /\ Len(AfterFirstAttempt) = 2
        /\ AfterFirstAttempt[1].endpoint = LoginEndpoint
        /\ AfterFirstAttempt[2].endpoint = ApiSent[1].endpoint
        /\ AfterFirstAttempt[2].body = ApiSent[1].body

\* C13: a 403 to the first attempt is followed by exactly one login request;
\* if that login succeeds, by exactly one retry of the same request and
\* nothing else, and the call raises QBittorrentError when the retry is not
\* answered 2xx; if the login fails the call raises QBittorrentError without
\* a retry.
C13_OneReauthentication ==
    Answered403 =>
        /\ AfterFirstAttempt # <<>>
        /\ AfterFirstAttempt[1].endpoint = LoginEndpoint
        /\ IF AfterFirstAttempt[1].resp = "Ok."
           THEN /\ Len(AfterFirstAttempt) = 2
                /\ AfterFirstAttempt[2].endpoint = ApiSent[1].endpoint
                /\ AfterFirstAttempt[2].body = ApiSent[1].body
                /\ qraised <=> AfterFirstAttempt[2].resp # "200"
           ELSE /\ Len(AfterFirstAttempt) = 1
                /\ qraised

\* the retry was answered 403 again and the call raised
C13_Witness ==
    /\ Answered403
    /\ qraised
    /\ Len(ApiSent) = 2
    /\ ApiSent[2].resp = "403"

\* the step sends a login request
LoginSent ==
    /\ Len(qlog') = Len(qlog) + 1
    /\ qlog'[Len(qlog')].endpoint = LoginEndpoint

\* C37: without a username no login request is ever sent and a call whose
\* request is answered 403 raises QBittorrentError after that one request;
\* with a username a login request is sent only while the client is not
\* authenticated, as the first request of a call or right after an API
\* request answered 403, and none is sent before the first API call.
C37_LazyLogin ==
    /\ [](qcall = None => qlog = <<>>)
    /\ [](~username => \A i \in DOMAIN qlog : qlog[i].endpoint # LoginEndpoint)
    /\ []((~username /\ qpc = "idle" /\ qlog # <<>> /\ qlog[1].resp = "403") =>
              (qraised /\ Len(qlog) = 1))
    /\ [][LoginSent =>
              /\ username
              /\ ~authenticated
              /\ qcall # None
              /\ qlog # <<>> => /\ qlog[Len(qlog)].endpoint # LoginEndpoint
                                /\ qlog[Len(qlog)].resp = "403"]_vars

\* a login sent after the API request of a call was answered 403
C37_Witness ==
    /\ username
    /\ Len(qlog) >= 2
    /\ qlog[1].resp = "403"
    /\ qlog[2].endpoint = LoginEndpoint

\* a call without username whose request was answered 403
C37_WitnessAnonymous ==
    /\ ~username
    /\ qpc = "idle"
    /\ qraised
    /\ qlog # <<>>
    /\ qlog[1].resp = "403"

\* ------------------------------------ a CONFIGURING tick, call by call
\* _configure_qbittorrent with the client underneath: the handler stops at
\* each client call, the client makes its HTTP requests step by step, the
\* server answers as it likes, and somebody else may edit the client's
\* preferences once while a call is under way.

\* The handler calls a method of the client
StartClientCall(m, todo) ==
    /\ qcall' = m
    /\ qtodo' = todo
    /\ qpc' = "ensure"
    /\ qlog' = <<>>
    /\ qraised' = FALSE
    /\ UNCHANGED <<username, authenticated>>

\* What neither the client nor somebody else's edit touches
ClientVarsOnlyButLocals ==
    UNCHANGED <<ksVars, state, shutdown_requested, pc, consecutive_failures,
                current_port, last_port_refresh, last_vpn_check, killswitch_enabled,
                max_consecutive_failures, backoffVars, natVars, storeVars,
                configVars, histVars>>

\* What no step of the handler touches
ConfigureUnchanged ==
    UNCHANGED <<ksVars, envVars, shutdown_requested, current_port, last_port_refresh,
                last_vpn_check, killswitch_enabled, max_consecutive_failures,
                backoffVars, natVars, storeVars, configVars, vpnSeenHealthy,
                setupSucceeded, tampered>>

\* The handler waits for the client
ConfigureWaits ==
    UNCHANGED <<state, consecutive_failures, tickHandler, tickFailed, notified>>

\* The setPreferences requests of the call that has just ended, for the
\* tick's log
Requests == [i \in 1..Len(SetPreferencesSent) |-> "setPreferences"]

\* a handler that updates the client whatever it read
NeedsUpdateAlways(port, interface) == TRUE

\* a handler that compares the port alone
NeedsUpdatePortOnly(port, interface) == port # current_port

\* _configure_qbittorrent, lines 328-344: needs_update, from what the two
\* reads returned
NeedsUpdateOf(port, interface) ==
    \/ port # current_port
    \/ interface # qbt_interface_binding

\* lines 318-325: no port, or the call of get_listening_port()
ConfigureGetListeningPort ==
    /\ pc = "CONFIGURING"
    /\ IF current_port = None
       THEN /\ EndTick("MAPPING_PORT", consecutive_failures, FALSE)
            /\ Result(FALSE, None, <<>>)
            /\ UNCHANGED clientVars
       ELSE /\ StartClientCall("get_preferences", <<>>)
            /\ pc' = "get_listening_port"
            /\ Result(FALSE, None, <<"get_listening_port">>)
            /\ ConfigureWaits
    /\ listening_port' = None
    /\ current_interface' = None
    /\ edited' = FALSE
    /\ ConfigureUnchanged

\* lines 356-358: the call raised QBittorrentError
ConfigureRaised ==
    /\ EndTick(HandleFailureState(state, consecutive_failures),
               consecutive_failures + 1, TRUE)
    /\ Result(FALSE, "QBittorrentError", tickResult.calls \o Requests)
    /\ UNCHANGED <<clientVars, localVars>>

\* lines 325-326: get_listening_port() has ended; get_network_interface()
ConfigureGetNetworkInterface ==
    /\ pc = "get_listening_port"
    /\ qpc = "idle"
    /\ IF qraised
       THEN ConfigureRaised
       ELSE /\ listening_port' = qbt_port
            /\ StartClientCall("get_preferences", <<>>)
            /\ pc' = "get_network_interface"
            /\ Result(FALSE, None, Append(tickResult.calls, "get_network_interface"))
            /\ ConfigureWaits
            /\ UNCHANGED <<current_interface, edited>>
    /\ ConfigureUnchanged

\* lines 326-354: get_network_interface() has ended; update when needed
ConfigureUpdate ==
    /\ pc = "get_network_interface"
    /\ qpc = "idle"
    /\ IF qraised
       THEN ConfigureRaised
       ELSE /\ current_interface' = qbt_iface
            /\ UNCHANGED <<listening_port, edited>>
            /\ IF NeedsUpdateOf(listening_port, qbt_iface)
               THEN /\ StartClientCall("update_port_and_interface",
                                       UpdatePreferences(current_port,
                                                         qbt_interface_binding))
                    /\ pc' = "update_port_and_interface"
                    /\ Result(FALSE, None,
                              Append(tickResult.calls, "update_port_and_interface"))
                    /\ ConfigureWaits
               ELSE /\ EndTick("MONITORING", 0, FALSE)
                    /\ Result(TRUE, None, tickResult.calls)
                    /\ UNCHANGED clientVars
    /\ ConfigureUnchanged

\* lines 346-354: update_port_and_interface() has ended
ConfigureUpdated ==
    /\ pc = "update_port_and_interface"
    /\ qpc = "idle"
    /\ IF qraised
       THEN ConfigureRaised
       ELSE /\ EndTick("MONITORING", 0, FALSE)
            /\ Result(TRUE, None, tickResult.calls \o Requests)
            /\ UNCHANGED <<clientVars, localVars>>
    /\ ConfigureUnchanged

\* Somebody else edits the client's preferences while a call of the handler
\* is under way, before the request that call sends next
ExternalQbtEditInTick ==
    /\ pc \in {"get_listening_port", "get_network_interface",
               "update_port_and_interface"}
    /\ qpc \in {"ensure", "attempt", "reauth", "retry"}
    /\ ~edited
    /\ edited' = TRUE
    /\ \E p \in QbtPorts, i \in QbtIfaces :
          /\ <<p, i>> # <<qbt_port, qbt_iface>>
          /\ qbt_port' = p
          /\ qbt_iface' = i
    /\ UNCHANGED <<listening_port, current_interface, file_last_port>>
    /\ ClientVarsOnlyButLocals
    /\ UNCHANGED clientVars

\* The supervisor between two ticks in CONFIGURING, as a MAPPING_PORT tick
\* left it: a port mapped and saved, the client with any preferences, with or
\* without a username and a session.
ConfigureInit ==
    /\ chainExists = FALSE /\ chainRules = <<>> /\ output = <<>>
    /\ KsInit
    /\ NatPmpInit
    /\ StoreIdle
    /\ LocalIdle
    /\ killswitch_enabled = FALSE
    /\ max_consecutive_failures \in 1..MaxThreshold
    /\ state = "CONFIGURING"
    /\ shutdown_requested = FALSE
    /\ pc = "loop"
    /\ consecutive_failures = 0
    /\ current_port \in Ports
    /\ file_last_port = current_port
    /\ last_port_refresh = "set"
    /\ last_vpn_check = None
    /\ qbt_port \in QbtPorts
    /\ qbt_iface \in QbtIfaces
    /\ username \in BOOLEAN
    /\ authenticated \in {FALSE, username}
    /\ qpc = "idle"
    /\ qcall = None
    /\ qtodo = <<>>
    /\ qlog = <<>>
    /\ qraised = FALSE
    /\ backoff = <<>>
    /\ failure_backoff_base = 1
    /\ failure_backoff_max = 1
    /\ natpmp_refresh_interval = 1
    /\ natpmp_lease_lifetime = 2
    /\ other_fields_valid = TRUE
    /\ vpnSeenHealthy = TRUE
    /\ setupSucceeded = FALSE
    /\ tampered = FALSE
    /\ tickHandler = "MAPPING_PORT"
    /\ tickFailed = FALSE
    /\ tickResult = [ok |-> TRUE, caught |-> None,
                     calls |-> <<"refresh_mapping", "_save_state">>]
    /\ notified = [ready |-> 1, watchdog |-> 1, stopping |-> 0]

\* The ticks that follow while the supervisor stays in CONFIGURING
ConfigureNext ==
    \/ LoopTest
    \/ Tick
    \/ ConfigureGetListeningPort
    \/ ConfigureGetNetworkInterface
    \/ ConfigureUpdate
    \/ ConfigureUpdated
    \/ EnsureAuthenticated
    \/ Attempt
    \/ Reauthenticate
    \/ Retry
    \/ ExternalQbtEditInTick

ConfigureSpec == ConfigureInit /\ [][ConfigureNext]_vars

\* a CONFIGURING tick has ended, all its client calls having succeeded
ConfigureSucceeded == pc = "loop" /\ tickHandler = "CONFIGURING" /\ tickResult.ok

\* what the handler read differs from the mapped port or the binding
Differs ==
    \/ listening_port # current_port
    \/ current_interface # qbt_interface_binding

\* C34 as claimed: a CONFIGURING tick whose client calls all succeed sends
\* exactly one setPreferences request when the listen_port or the interface
\* it read differs, none when both match, and ends in MONITORING.
C34_OneSetPreferences ==
    ConfigureSucceeded =>
        /\ state = "MONITORING"
        /\ Count(tickResult.calls, "setPreferences") = IF Differs THEN 1 ELSE 0

\* C34 amended: such a tick calls update_port_and_interface exactly once
\* when the listen_port or the interface it read differs, and that call
\* sends one setPreferences request, or two when the first was answered 403
\* and the client logged in again and retried; when both match it makes no
\* such call and sends no setPreferences request; it ends in MONITORING with
\* the failure counter at 0.
C34_OneUpdateCall ==
    ConfigureSucceeded =>
        /\ state = "MONITORING"
        /\ consecutive_failures = 0
        /\ IF Differs
           THEN /\ Count(tickResult.calls, "update_port_and_interface") = 1
                /\ Count(tickResult.calls, "setPreferences") \in {1, 2}
                /\ Count(tickResult.calls, "setPreferences") = Len(SetPreferencesSent)
                /\ Len(SetPreferencesSent) = 2 =>
                       /\ username
                       /\ SetPreferencesSent[1].resp = "403"
                       /\ SetPreferencesSent[2].resp = "200"
           ELSE /\ Count(tickResult.calls, "update_port_and_interface") = 0
                /\ Count(tickResult.calls, "setPreferences") = 0

\* the tick updated the client with a single setPreferences request
C34_Witness ==
    /\ ConfigureSucceeded
    /\ Differs
    /\ tickResult.calls = <<"get_listening_port", "get_network_interface",
                            "update_port_and_interface", "setPreferences">>
    /\ state = "MONITORING"

\* the tick found the client configured and sent nothing
C34_WitnessNoUpdate ==
    /\ ConfigureSucceeded
    /\ ~Differs
    /\ tickResult.calls = <<"get_listening_port", "get_network_interface">>
    /\ state = "MONITORING"

\* C39: when a CONFIGURING tick ends in MONITORING and nobody else edited the
\* client's preferences during the tick, the client's listen_port is
\* current_port and its interface is the configured binding.
C39_ConfiguredWhenMonitoring ==
    (pc = "loop" /\ tickHandler = "CONFIGURING" /\ state = "MONITORING" /\ ~edited) =>
        /\ qbt_port = current_port
        /\ qbt_iface = qbt_interface_binding

\* the tick updated a client that had the port of the mapping and no binding
C39_Witness ==
    /\ pc = "loop"
    /\ tickHandler = "CONFIGURING"
    /\ state = "MONITORING"
    /\ ~edited
    /\ listening_port = current_port
    /\ current_interface = ""
    /\ Count(tickResult.calls, "update_port_and_interface") = 1
    /\ qbt_iface = qbt_interface_binding

\* ------------------------------------------------------ _calculate_backoff
\* random.uniform(0, delay * 0.1) is drawn in steps of 1/JitterSteps of a
\* second; int() of a non-negative number is its floor.
JitterSteps == 10

\* the delay without the cap of failure_backoff_max
BackoffDelayUncapped(base, f, max_delay) == base * 2^f

\* delay = min(base * (2**consecutive_failures), max_delay)
BackoffDelay(base, f, max_delay) ==
    IF base * 2^f < max_delay THEN base * 2^f ELSE max_delay

\* _calculate_backoff, lines 190-195: the delay plus a jitter of at most a
\* tenth of it, truncated to whole seconds
CalculateBackoff ==
    /\ pc = "backoff"
    /\ backoff = <<>>
    /\ LET delay == BackoffDelay(failure_backoff_base, consecutive_failures,
                                 failure_backoff_max)
       IN  \E jitter \in 0..delay :
              backoff' = <<(delay * JitterSteps + jitter) \div JitterSteps>>
    /\ UNCHANGED <<ksVars, state, shutdown_requested, pc, consecutive_failures,
                   current_port, last_port_refresh, last_vpn_check, killswitch_enabled,
                   max_consecutive_failures, clientVars, failure_backoff_base,
                   failure_backoff_max, natVars, storeVars, configVars, localVars, envVars,
                   histVars>>

\* Any configuration validate() accepts (base >= 1, max >= base) and any
\* number of failures
BackoffInit ==
    /\ LocalIdle
    /\ chainExists = FALSE /\ chainRules = <<>> /\ output = <<>>
    /\ KsInit
    /\ state = "RECOVERING"
    /\ shutdown_requested = FALSE
    /\ current_port = None
    /\ last_port_refresh = None
    /\ last_vpn_check = None
    /\ file_last_port = "absent"
    /\ vpnSeenHealthy = FALSE
    /\ setupSucceeded = FALSE
    /\ tampered = FALSE
    /\ tickHandler = None
    /\ tickFailed = FALSE
    /\ tickResult = NoResult
    /\ notified = NotNotified
    /\ ClientInit
    /\ NatPmpInit
    /\ StoreIdle
    /\ pc = "backoff"
    /\ killswitch_enabled = FALSE
    /\ max_consecutive_failures = 1
    /\ natpmp_refresh_interval = 1
    /\ natpmp_lease_lifetime = 2
    /\ other_fields_valid = TRUE
    /\ username = FALSE
    /\ qbt_port = "6881"
    /\ qbt_iface = ""
    /\ failure_backoff_base \in 1..MaxBase
    /\ failure_backoff_max \in failure_backoff_base..MaxDelay
    /\ consecutive_failures \in 0..MaxExponent

BackoffNext ==
    \/ CalculateBackoff

BackoffSpec == BackoffInit /\ [][BackoffNext]_vars

\* C19: the delay d returned for f failures satisfies
\* min(base * 2^f, max) <= d <= floor(1.1 * min(base * 2^f, max)), hence
\* d <= floor(1.1 * max).
C19_BackoffBounds ==
    backoff # <<>> =>
        LET d == backoff[1]
            grown == failure_backoff_base * 2^consecutive_failures
            capped == IF grown < failure_backoff_max THEN grown ELSE failure_backoff_max
        IN  /\ capped <= d
            /\ d <= (11 * capped) \div 10
            /\ d <= (11 * failure_backoff_max) \div 10

\* three failures, the cap of failure_backoff_max applies and the jitter
\* added at least a second
C19_Witness ==
    /\ backoff # <<>>
    /\ consecutive_failures = 3
    /\ failure_backoff_base * 8 > failure_backoff_max
    /\ backoff[1] > failure_backoff_max

\* ----------------------------------------------------------- NatPmpManager
\* One step per natpmpc invocation.  natpmpc ends with a non-zero exit code,
\* runs into the 30 s timeout, is not installed, or exits with code 0 and
\* some output; the output either holds a "Mapped public port <digits> ..."
\* line or does not.  The digits are what the gateway answered.
Digits == {0, 7}

DigitStrings == UNION {[1..n -> Digits] : n \in 1..MaxDigits}

NatpmpcResults ==
    {[kind |-> k, matched |-> FALSE, digits |-> <<>>] :
        k \in {"exit_nonzero", "timeout", "not_found", "exit_zero"}}
    \cup {[kind |-> "exit_zero", matched |-> TRUE, digits |-> ds] : ds \in DigitStrings}

\* int() of a string of decimal digits
RECURSIVE DecimalValue(_)
DecimalValue(ds) ==
    IF ds = <<>> THEN 0
    ELSE 10 * DecimalValue(SubSeq(ds, 1, Len(ds) - 1)) + ds[Len(ds)]

\* _parse_mapping_output: <<>> stands for NatPmpError, <<p>> for a mapping
\* with public_port p
ParseMappingOutput(r) ==
    IF ~r.matched THEN <<>> ELSE <<DecimalValue(r.digits)>>

\* request_mapping: <<>> stands for NatPmpError
RequestMapping(r) ==
    IF r.kind # "exit_zero" THEN <<>> ELSE ParseMappingOutput(r)

\* What no step of the NAT-PMP manager touches
NatVarsOnly ==
    UNCHANGED <<ksVars, state, shutdown_requested, pc, consecutive_failures,
                current_port, last_port_refresh, last_vpn_check, killswitch_enabled,
                max_consecutive_failures, clientVars, backoffVars, storeVars,
                configVars, localVars, envVars, histVars>>

\* refresh_mapping is called
RefreshCalled ==
    /\ pc = "natpmp"
    /\ rpc = "idle"
    /\ ncalls < MaxRefreshes
    /\ ncalls' = ncalls + 1
    /\ rpc' = "tcp"
    /\ nlog' = <<>>
    /\ tcp_mapping' = <<>>
    /\ udp_mapping' = <<>>
    /\ nresult' = NoRefresh
    /\ UNCHANGED <<nat_port, nat_last_refresh>>
    /\ NatVarsOnly

\* refresh_mapping ends with NatPmpError
RefreshRaises ==
    /\ rpc' = "idle"
    /\ nresult' = [raised |-> TRUE, port |-> <<>>]
    /\ UNCHANGED <<nat_port, nat_last_refresh>>

\* request_both_protocols, line 147: request_mapping(Protocol.TCP)
RequestTcp ==
    /\ pc = "natpmp"
    /\ rpc = "tcp"
    /\ nlog' = Append(nlog, "tcp")
    /\ \E r \in NatpmpcResults :
          /\ tcp_mapping' = RequestMapping(r)
          /\ IF RequestMapping(r) = <<>>
                THEN RefreshRaises
                ELSE rpc' = "udp" /\ UNCHANGED <<nat_port, nat_last_refresh, nresult>>
    /\ UNCHANGED <<ncalls, udp_mapping>>
    /\ NatVarsOnly

\* request_both_protocols, line 148: request_mapping(Protocol.UDP)
RequestUdp ==
    /\ pc = "natpmp"
    /\ rpc = "udp"
    /\ nlog' = Append(nlog, "udp")
    /\ \E r \in NatpmpcResults :
          /\ udp_mapping' = RequestMapping(r)
          /\ IF RequestMapping(r) = <<>>
                THEN RefreshRaises
                ELSE rpc' = "update" /\ UNCHANGED <<nat_port, nat_last_refresh, nresult>>
    /\ UNCHANGED <<ncalls, tcp_mapping>>
    /\ NatVarsOnly

\* the UDP mapping taken as the authoritative one
AuthoritativeUdp(tcp, udp) == udp

\* refresh_mapping, line 174: the TCP mapping is the authoritative one
Authoritative(tcp, udp) == tcp

\* refresh_mapping, lines 173-180: both mappings were obtained
RefreshReturns ==
    /\ pc = "natpmp"
    /\ rpc = "update"
    /\ nat_port' = Authoritative(tcp_mapping, udp_mapping)
    /\ nat_last_refresh' = ncalls
    /\ nresult' = [raised |-> FALSE, port |-> nat_port']
    /\ rpc' = "idle"
    /\ UNCHANGED <<ncalls, nlog, tcp_mapping, udp_mapping>>
    /\ NatVarsOnly

\* ---------------------------------------------- the NAT-PMP manager on its own
NatPmpSpecInit ==
    /\ LocalIdle
    /\ chainExists = FALSE /\ chainRules = <<>> /\ output = <<>>
    /\ KsInit
    /\ SvInitCold
    /\ ClientInit
    /\ NatPmpInit
    /\ StoreIdle
    /\ ConfigDefault
    /\ pc = "natpmp"
    /\ killswitch_enabled = FALSE
    /\ max_consecutive_failures = 1
    /\ qbt_port = "6881"
    /\ qbt_iface = ""

NatPmpNext ==
    \/ RefreshCalled
    \/ RequestTcp
    \/ RequestUdp
    \/ RefreshReturns

NatPmpSpec == NatPmpSpecInit /\ [][NatPmpNext]_vars

\* a refresh_mapping call has ended
RefreshEnded == rpc = "idle" /\ ncalls > 0

\* C26 as claimed: every port refresh_mapping returns lies in 1..65535.
C26_PortInRange ==
    (RefreshEnded /\ ~nresult.raised) => nresult.port[1] \in 1..65535

\* C27: refresh_mapping requests TCP first and UDP second; when both requests
\* succeed it returns the TCP public port and does not raise, also when the
\* UDP public port differs; when a request fails it raises NatPmpError, and
\* no step of a call that raises changes current_port or last_refresh.
C27_TcpIsAuthoritative ==
    /\ [](nlog \in {<<>>, <<"tcp">>, <<"tcp", "udp">>})
    /\ []((RefreshEnded /\ tcp_mapping # <<>> /\ udp_mapping # <<>>) =>
              /\ ~nresult.raised
              /\ nresult.port = tcp_mapping
              /\ nat_port = tcp_mapping
              /\ nat_last_refresh = ncalls)
    /\ []((RefreshEnded /\ (tcp_mapping = <<>> \/ udp_mapping = <<>>)) =>
              nresult.raised)
    /\ [][(rpc' # "idle" \/ nresult'.raised) =>
              UNCHANGED <<nat_port, nat_last_refresh>>]_vars

\* a call that returned the TCP port although the UDP port differed, made by
\* a manager that held another port before
C27_Witness ==
    /\ RefreshEnded
    /\ ~nresult.raised
    /\ tcp_mapping # udp_mapping
    /\ nresult.port = tcp_mapping
    /\ ncalls > 1

\* a second call that failed at the UDP request and kept the first call's port
C27_WitnessFailure ==
    /\ RefreshEnded
    /\ nresult.raised
    /\ nlog = <<"tcp", "udp">>
    /\ nat_port # <<>>
    /\ nat_port # tcp_mapping

\* ------------------------------------------------------------ the state file
\* _save_state and _load_state in detail.  Here current_port is <<>> for None
\* and <<p>> for the integer p, and last_port_refresh is <<>> for None and
\* <<d>> for the datetime d, a record of its seconds, its microseconds and
\* whether it carries a UTC offset.  The state file holds JSON text, so a
\* port is written as decimal digits and a datetime as the text isoformat()
\* gives.
Microseconds == {0, 500000}

Datetimes == [secs : 0..MaxSecs, micro : Microseconds, aware : BOOLEAN]

PortsHeld == {0, 51413}

\* str() of a non-negative integer, as json.dump writes it
RECURSIVE DecimalDigits(_)
DecimalDigits(n) ==
    IF n < 10 THEN <<n>> ELSE Append(DecimalDigits(n \div 10), n % 10)

\* an isoformat() that never writes the fraction
IsoformatSeconds(d) ==
    [secs |-> d.secs, frac |-> <<>>, offset |-> IF d.aware THEN <<0>> ELSE <<>>]

\* datetime.isoformat(): the fraction is written only when microsecond # 0,
\* the offset only for an aware datetime
Isoformat(d) ==
    [secs |-> d.secs,
     frac |-> IF d.micro = 0 THEN <<>> ELSE <<d.micro>>,
     offset |-> IF d.aware THEN <<0>> ELSE <<>>]

\* datetime.fromisoformat() of a text isoformat() can have written
FromIsoformat(t) ==
    [secs |-> t.secs,
     micro |-> IF t.frac = <<>> THEN 0 ELSE t.frac[1],
     aware |-> t.offset # <<>>]

\* _save_state, lines 168-175: the members "last_port" and "last_refresh" of
\* the object json.dump writes
SavedFile(port, refresh) ==
    FileOf("object",
           IF port = <<>> THEN JNull ELSE JNumber(DecimalDigits(port[1])),
           IF refresh = <<>> THEN JNull ELSE JString(Isoformat(refresh[1])))

\* The files a starting supervisor can find
FoundFiles ==
    {FileOf(k, JNull, JNull) : k \in {"absent", "unreadable", "not_json", "not_object"}}
    \cup {FileOf("object", p, r) :
            p \in {JNull, JNumber(<<7>>)},
            r \in {JNull, JEmpty, JGarbage, JNumber(<<7>>)}
                  \cup {JString(Isoformat(d)) : d \in Datetimes}}

\* _load_state, lines 141-161, on a ServiceStateData() at its defaults: what
\* the runtime state holds afterwards and the exception that left
\* _load_state, if any.  json.JSONDecodeError and OSError are caught (line
\* 160); data.get of a JSON value that is not an object raises
\* AttributeError, fromisoformat raises ValueError for a string it cannot
\* parse and TypeError for a number, and none of these is caught.
LoadState(f) ==
    LET defaults == [raised |-> None, current_port |-> <<>>, last_port_refresh |-> <<>>]
        port == IF f.last_port.type = "number"
                   THEN <<DecimalValue(f.last_port.digits)>> ELSE <<>>
        r == f.last_refresh
    IN  IF f.kind \in {"absent", "unreadable", "not_json"} THEN defaults
        ELSE IF f.kind = "not_object"
            THEN [defaults EXCEPT !.raised = "AttributeError"]
        ELSE IF r.type \in {"null", "empty_string"}
            THEN [defaults EXCEPT !.current_port = port]
        ELSE IF r.type = "number"
            THEN [defaults EXCEPT !.current_port = port, !.raised = "TypeError"]
        ELSE IF ~r.parseable
            THEN [defaults EXCEPT !.current_port = port, !.raised = "ValueError"]
        ELSE [defaults EXCEPT !.current_port = port,
                              !.last_port_refresh = <<FromIsoformat(r.text)>>]

\* What no step on the state file touches
StoreVarsOnly ==
    UNCHANGED <<ksVars, state, shutdown_requested, pc, consecutive_failures,
                last_vpn_check, killswitch_enabled, max_consecutive_failures,
                clientVars, backoffVars, natVars, configVars, localVars, envVars, histVars>>

\* _save_state, lines 163-182: mkdir raises OSError out of _save_state (line
\* 166 is outside the try); open() fails and the file stays as it was;
\* json.dump fails after open() has truncated the file; or the file is written
SaveState ==
    /\ pc = "store"
    /\ lpc = "running"
    /\ \E outcome \in {"mkdir_failed", "open_failed", "write_failed", "written"} :
          /\ lpc' = IF outcome = "mkdir_failed" THEN "save_raised" ELSE "running"
          /\ saved' = IF outcome = "mkdir_failed" THEN saved
                      ELSE [called |-> TRUE, current_port |-> current_port,
                            last_port_refresh |-> last_port_refresh]
          /\ state_file' =
                IF outcome = "written" THEN SavedFile(current_port, last_port_refresh)
                ELSE IF outcome = "write_failed" THEN FileOf("not_json", JNull, JNull)
                ELSE state_file
          /\ file_origin' =
                IF outcome = "written" THEN "saved"
                ELSE IF outcome = "write_failed" THEN "damaged"
                ELSE file_origin
    /\ loaded' = FALSE
    /\ UNCHANGED <<current_port, last_port_refresh>>
    /\ StoreVarsOnly

\* QBouncerService.__init__, lines 62-102, in a new process: a
\* ServiceStateData() at its defaults, then _load_state
Construct ==
    /\ pc = "store"
    /\ lpc \in {"running", "save_raised"}
    /\ LET l == LoadState(state_file)
       IN  /\ current_port' = l.current_port
           /\ last_port_refresh' = l.last_port_refresh
           /\ lpc' = IF l.raised = None THEN "running" ELSE "raised"
    /\ loaded' = TRUE
    /\ UNCHANGED <<state_file, file_origin, saved>>
    /\ StoreVarsOnly

\* Any runtime state over any state file
StateFileInit ==
    /\ LocalIdle
    /\ chainExists = FALSE /\ chainRules = <<>> /\ output = <<>>
    /\ KsInit
    /\ state = "INITIALIZING"
    /\ shutdown_requested = FALSE
    /\ consecutive_failures = 0
    /\ last_vpn_check = None
    /\ file_last_port = "absent"
    /\ vpnSeenHealthy = FALSE
    /\ setupSucceeded = FALSE
    /\ tampered = FALSE
    /\ tickHandler = None
    /\ tickFailed = FALSE
    /\ tickResult = NoResult
    /\ notified = NotNotified
    /\ ClientInit
    /\ NatPmpInit
    /\ ConfigDefault
    /\ pc = "store"
    /\ killswitch_enabled = FALSE
    /\ max_consecutive_failures = 1
    /\ qbt_port = "6881"
    /\ qbt_iface = ""
    /\ current_port \in {<<>>} \cup {<<p>> : p \in PortsHeld}
    /\ last_port_refresh \in {<<>>} \cup {<<d>> : d \in Datetimes}
    /\ state_file \in FoundFiles
    /\ file_origin = "found"
    /\ saved = NoSaved
    /\ lpc = "running"
    /\ loaded = FALSE

StateFileNext ==
    \/ SaveState
    \/ Construct

StateFileSpec == StateFileInit /\ [][StateFileNext]_vars

\* the runtime state is at the defaults of ServiceStateData
AtDefaults == current_port = <<>> /\ last_port_refresh = <<>>

\* a file that is unreadable or malformed in some way
Malformed(f) ==
    \/ f.kind \in {"unreadable", "not_json", "not_object"}
    \/ f.kind = "object" /\ f.last_refresh.type # "null" /\ ~f.last_refresh.parseable

\* C28 as claimed: a supervisor constructed over an absent state file, or over
\* one that is unreadable or malformed in any way, is constructed without an
\* exception and has its runtime state at the defaults.
C28_BadFileIgnored ==
    (loaded /\ file_origin = "found" /\ (state_file.kind = "absent" \/ Malformed(state_file)))
        => (lpc = "running" /\ AtDefaults)

Exited == pc \in {"done", "crashed", "config_error"}

\* main(): 0 when run() returned, 1 when an exception left the try block
ExitCode == IF pc = "done" THEN 0 ELSE 1

\* a _validate that accepts a refresh interval equal to the lease lifetime
ValidateLenient ==
    /\ other_fields_valid
    /\ natpmp_refresh_interval >= 1
    /\ natpmp_lease_lifetime >= 1
    /\ natpmp_refresh_interval <= natpmp_lease_lifetime
    /\ max_consecutive_failures >= 1
    /\ failure_backoff_base >= 1
    /\ failure_backoff_max >= failure_backoff_base

\* Config._validate, lines 76-136: TRUE when no check raises ConfigError
Validate ==
    /\ other_fields_valid
    /\ natpmp_refresh_interval >= 1
    /\ natpmp_lease_lifetime >= 1
    /\ ~(natpmp_refresh_interval >= natpmp_lease_lifetime)
    /\ max_consecutive_failures >= 1
    /\ failure_backoff_base >= 1
    /\ failure_backoff_max >= failure_backoff_base

\* What neither Config.load nor the constructor touches
ConfigVarsOnly ==
    UNCHANGED <<ksVars, state, shutdown_requested, consecutive_failures,
                last_vpn_check, killswitch_enabled, max_consecutive_failures,
                clientVars, backoffVars, natVars, storeVars, configVars, localVars, envVars,
                histVars>>

\* main(), lines 95-111: Config.load(args.config)
LoadConfig ==
    /\ pc = "main"
    /\ pc' = IF Validate THEN "construct" ELSE "config_error"
    /\ UNCHANGED <<current_port, last_port_refresh>>
    /\ ConfigVarsOnly

\* main(), line 104: QBouncerService(config), which loads the state file
CreateService ==
    /\ pc = "construct"
    /\ pc' = "start"
    /\ current_port' = IF file_last_port = "absent" THEN None ELSE file_last_port
    /\ last_port_refresh' = IF file_last_port = "absent" THEN None ELSE "loaded"
    /\ ConfigVarsOnly

\* Any values of the options _validate compares
ConfigInit ==
    /\ LocalIdle
    /\ killswitch_enabled \in BOOLEAN
    /\ IF killswitch_enabled
       THEN ResidualFilter
       ELSE chainExists = FALSE /\ chainRules = <<>> /\ output = <<>>
    /\ KsInit
    /\ SvInitCold
    /\ ClientInit
    /\ NatPmpInit
    /\ StoreIdle
    /\ pc = "main"
    /\ username = FALSE
    /\ qbt_port = "6881"
    /\ qbt_iface = ""
    /\ natpmp_refresh_interval \in 0..MaxInterval
    /\ natpmp_lease_lifetime \in 0..MaxInterval
    /\ other_fields_valid \in BOOLEAN
    /\ max_consecutive_failures \in 0..MaxThreshold
    /\ failure_backoff_base \in 0..MaxBase
    /\ failure_backoff_max \in 0..MaxBase

ConfigNext ==
    \/ LoadConfig
    \/ CreateService
    \/ Start

ConfigSpec == ConfigInit /\ [][ConfigNext]_vars

\* C30: once Config.load has been called with natpmp refresh_interval >=
\* lease_lifetime, main() has ended on ConfigError with exit code 1: no
\* service was created or started, no firewall command was issued, the state
\* file is as it was, and nothing more happens.
C30_RefreshNotBelowLeaseIsRejected ==
    (pc # "main" /\ natpmp_refresh_interval >= natpmp_lease_lifetime) =>
        /\ pc = "config_error"
        /\ Exited
        /\ ExitCode = 1
        /\ state = "INITIALIZING"
        /\ notified = NotNotified
        /\ klog = <<>>
        /\ kop = None
        /\ file_last_port = "absent"
        /\ ~ENABLED ConfigNext

\* a configuration rejected for refresh_interval = lease_lifetime alone
C30_Witness ==
    /\ pc = "config_error"
    /\ other_fields_valid
    /\ natpmp_refresh_interval >= 1
    /\ natpmp_refresh_interval = natpmp_lease_lifetime
    /\ max_consecutive_failures >= 1
    /\ failure_backoff_base >= 1
    /\ failure_backoff_max >= failure_backoff_base

\* ------------------------------------------------- supervisor: properties
\* C1: a shutdown request delivered while run() is looping is never lost or
\* overwritten: once the signal has been handled, every later test of the loop
\* condition finds the label SHUTTING_DOWN, so no further tick starts.
C1_ShutdownNeverLost ==
    (shutdown_requested /\ pc = "loop") => state = "SHUTTING_DOWN"

\* C2: after a failing tick of a handler other than MONITORING's that brings
\* the counter to max_consecutive_failures, the state label is RECOVERING.
C2_NthFailureRecovers ==
    (/\ pc = "loop"
     /\ tickFailed
     /\ tickHandler # "MONITORING"
     /\ ~shutdown_requested
     /\ consecutive_failures >= max_consecutive_failures) => state = "RECOVERING"

\* C3: between the first successful setup() and _cleanup, the jump rule of the
\* configured uid and the REJECT rule of the chain are present unless somebody
\* else removed them.
C3_KillswitchStaysInstalled ==
    (/\ setupSucceeded
     /\ ~tampered
     /\ pc \notin {"cleanup_ks", "cleanup_save", "done", "crashed"}) =>
        (RuleExists(output, "jump") /\ RuleExists(chainRules, "rej"))

\* C4 as claimed: every setup() of the supervisor follows an is_healthy() that
\* returned true, and no mutating command is issued before the VPN has first
\* been observed healthy.
C4_NoMutationBeforeHealthy ==
    /\ kop = "setup" => vpnSeenHealthy
    /\ klog # <<>> => vpnSeenHealthy

\* C4 amended: every setup() of the supervisor follows an is_healthy() that
\* returned true, and before the VPN has first been observed healthy the only
\* mutating commands are those of the cleanup() that _cleanup runs at shutdown.
C4_SetupAfterHealthy ==
    /\ kop = "setup" => vpnSeenHealthy
    /\ (klog # <<>> /\ ~vpnSeenHealthy) => (kop = "cleanup" /\ pc \in {"cleanup_ks", "done", "crashed"})

\* the setup() of _wait_for_vpn has torn a residual chain down and is
\* rebuilding it
C4_Witness ==
    /\ pc = "wait_vpn_setup"
    /\ kop = "setup"
    /\ vpnSeenHealthy
    /\ ~setupSucceeded
    /\ klog = <<"F", "D", "X", "N">>

\* C11: cleanup() never raises: when a packet-filter command fails or the user
\* cannot be resolved it returns normally, and _cleanup goes on to persist the
\* state and to send STOPPING=1 (which only a failing _save_state prevents).
C11_CleanupNeverRaises ==
    /\ []((kop = "cleanup" /\ kpc = "idle") => ~kraised)
    /\ [][(pc = "cleanup_ks" /\ kpc = "idle") =>
              \/ pc' = "done"
              \/ pc' = "crashed" /\ faults' > faults]_vars

\* shutdown completed although cleanup() failed and left the chain behind
C11_Witness ==
    /\ pc = "done"
    /\ kop = "cleanup"
    /\ kfailed
    /\ chainExists

\* The state file holds port p (no file, or a null last_port, for no port)
FileHolds(p) ==
    IF p = None THEN file_last_port \in {"absent", None} ELSE file_last_port = p

\* C14: after every completed tick the state file's last_port equals the
\* in-memory current_port, the result of the last successful refresh.
C14_FileMatchesPort ==
    (pc = "loop" /\ tickHandler # None) => FileHolds(current_port)

\* C15: the label a tick starts with and the label it ends with form a legal
\* transition; RECOVERING only with the counter at max_consecutive_failures,
\* SHUTTING_DOWN only after a signal.
C15_LegalTransitions ==
    LET LegalNext(h) ==
            CASE h = "WAITING_VPN" -> {"WAITING_VPN", "WAITING_QBT"}
              [] h = "WAITING_QBT" -> {"WAITING_QBT", "MAPPING_PORT"}
              [] h = "MAPPING_PORT" -> {"CONFIGURING", "MONITORING", "WAITING_VPN"}
              [] h = "CONFIGURING" -> {"MONITORING", "CONFIGURING"}
              [] h = "MONITORING" -> {"MONITORING", "WAITING_VPN", "MAPPING_PORT",
                                      "WAITING_QBT", "CONFIGURING"}
              [] h = "RECOVERING" -> {"WAITING_VPN"}
    IN  /\ (pc = "loop" /\ tickHandler # None) =>
              \/ state \in LegalNext(tickHandler)
              \/ /\ state = "RECOVERING"
                 /\ consecutive_failures >= max_consecutive_failures
              \/ state = "SHUTTING_DOWN"
        /\ state = "SHUTTING_DOWN" => shutdown_requested

\* a MAPPING_PORT tick ended in RECOVERING: its _save_state raised with
\* max_consecutive_failures = 1
C15_Witness ==
    /\ pc = "loop"
    /\ tickHandler = "MAPPING_PORT"
    /\ state = "RECOVERING"

\* C16: every exception caught during a tick is counted as a failure.
C16_CaughtIsCounted ==
    (pc = "loop" /\ tickResult.caught # None) => tickFailed

\* C17: every tick whose step succeeded ends with consecutive_failures = 0.
C17_SuccessResets ==
    (pc = "loop" /\ tickResult.ok) => consecutive_failures = 0

\* C18: consecutive_failures is lowered only to 0 and only by a tick whose
\* collaborator step succeeded.
C18_OnlySuccessLowers ==
    [][consecutive_failures' < consecutive_failures =>
          (consecutive_failures' = 0 /\ tickResult'.ok)]_vars

\* a RECOVERING tick has ended and the counter is still at the threshold
C18_Witness ==
    /\ pc = "loop"
    /\ tickHandler = "RECOVERING"
    /\ state = "WAITING_VPN"
    /\ consecutive_failures >= max_consecutive_failures

\* C20: a MAPPING_PORT tick whose refresh raises NatPmpError counts exactly one
\* failure, ends in WAITING_VPN and leaves current_port, last_port_refresh and
\* the state file as they were.
C20_FailedRefresh ==
    [][(pc = "MAPPING_PORT" /\ tickResult'.caught = "NatPmpError") =>
          /\ consecutive_failures' = consecutive_failures + 1
          /\ state' = "WAITING_VPN"
          /\ pc' = "loop"
          /\ UNCHANGED <<current_port, last_port_refresh, file_last_port>>]_vars

\* a refresh failed while a leased port was held
C20_Witness ==
    /\ pc = "loop"
    /\ tickResult.caught = "NatPmpError"
    /\ state = "WAITING_VPN"
    /\ current_port = "42000"
    /\ file_last_port = "42000"

\* exceptions.py: the error kinds the module defines
ErrorKinds == {"QBouncerError", "ConfigError", "WireGuardError", "NatPmpError",
               "QBittorrentError"}

\* C21: a WireGuardError of is_healthy() (a required tool is absent) is fatal:
\* the supervisor has left its loop and the process has exited with code 1.
C21_MissingToolIsFatal ==
    tickResult.caught = "WireGuardError" => (pc = "crashed" /\ ExitCode = 1)

\* C22: exactly one WATCHDOG=1 has been sent after every tick of the loop,
\* also after a tick that ended in a caught exception; a WATCHDOG=1 is sent
\* only after READY=1 and before STOPPING=1.
C22_WatchdogAfterEveryTick ==
    /\ []((pc = "loop" /\ tickHandler # None) => notified.watchdog = 1)
    /\ [](notified.watchdog > 0 => notified.ready = 1)
    /\ [][notified'.watchdog > notified.watchdog => notified.stopping = 0]_vars

\* C23: every shutdown ends with the killswitch removal attempted, the final
\* state saved, STOPPING=1 sent and exit code 0, also when the removal or the
\* saving failed.
C23_ShutdownCompletes ==
    Exited => /\ ExitCode = 0
              /\ notified.stopping = 1
              /\ killswitch_enabled => kop = "cleanup"

\* C24: once a setup() of this run has succeeded, a later WAITING_VPN tick
\* issues no packet-filter mutating command.
C24_SetupOnlyOnce ==
    ~(pc = "wait_vpn_setup" /\ setupSucceeded /\ klog # <<>>)

\* C25: KillswitchError is an error kind of the exceptions module, and a
\* WAITING_VPN tick whose setup() raised it has counted one failure and left
\* the label WAITING_VPN.
C25_SetupFailureStaysInWaitingVpn ==
    /\ "KillswitchError" \in ErrorKinds
    /\ (pc = "loop" /\ tickHandler = "WAITING_VPN"
          /\ tickResult.caught = "KillswitchError") =>
            /\ tickFailed
            /\ state = "WAITING_VPN"

\* C36: a tick that counted a failure and leaves the supervisor in the state
\* it was dispatched for, so that the next tick repeats the operation that
\* failed, has slept.
C36_SleepBeforeRetry ==
    (pc = "loop" /\ tickFailed /\ state = tickHandler) => Slept

\* the tick's refresh_mapping() returned a port: _save_state was reached
RefreshSucceeded ==
    \E i \in DOMAIN tickResult.calls : tickResult.calls[i] = "_save_state"

\* C33: when refresh_mapping() returns a port the handler sets the label to
\* CONFIGURING if the port changed, if the probe raised or if the client's
\* listen_port differs, else to MONITORING; and the tick ends with that
\* label, without a counted failure, with current_port and last_port_refresh
\* set and the port in the state file.
C33_AfterSuccessfulRefresh ==
    /\ [][(pc = "MAPPING_PORT" /\ RefreshSucceeded') =>
            /\ current_port' # None
            /\ last_port_refresh' # None
            /\ state' = IF current_port' # current_port THEN "CONFIGURING"
                        ELSE IF tickResult'.caught = "QBittorrentError"
                                THEN "CONFIGURING"
                        ELSE IF qbt_port # current_port' THEN "CONFIGURING"
                        ELSE "MONITORING"]_vars
    /\ []((pc = "loop" /\ tickHandler = "MAPPING_PORT" /\ RefreshSucceeded
           /\ ~shutdown_requested) =>
            /\ state \in {"CONFIGURING", "MONITORING"}
            /\ ~tickFailed
            /\ current_port # None
            /\ last_port_refresh # None
            /\ file_last_port = current_port)

\* C35: a CONFIGURING tick in which a client call raises QBittorrentError
\* counts exactly one failure and keeps current_port; the label stays
\* CONFIGURING while the counter is below max_consecutive_failures and is
\* RECOVERING in the tick in which the counter reaches it.
C35_ConfigureFailure ==
    [][(pc = "CONFIGURING" /\ state = "CONFIGURING"
        /\ tickResult'.caught = "QBittorrentError") =>
          /\ consecutive_failures' = consecutive_failures + 1
          /\ tickFailed'
          /\ current_port' = current_port
          /\ state' = IF consecutive_failures' < max_consecutive_failures
                         THEN "CONFIGURING" ELSE "RECOVERING"]_vars

\* the failure of a CONFIGURING tick that reached the threshold of two
C35_Witness ==
    /\ pc = "loop"
    /\ tickHandler = "CONFIGURING"
    /\ tickResult.caught = "QBittorrentError"
    /\ max_consecutive_failures = 2
    /\ consecutive_failures = 2
    /\ state = "RECOVERING"

\* a CONFIGURING tick that failed below the threshold
C35_WitnessBelow ==
    /\ pc = "loop"
    /\ tickHandler = "CONFIGURING"
    /\ tickResult.caught = "QBittorrentError"
    /\ consecutive_failures = 1
    /\ max_consecutive_failures = 2
    /\ state = "CONFIGURING"

\* C38: while the label is CONFIGURING or MONITORING, and while either
\* handler runs, current_port is set and last_port_refresh is the stamp of a
\* refresh of this run (not none, not the one loaded from the state file);
\* the CONFIGURING handler never finds current_port none; and current_port,
\* once set, stays set.
C38_PortKnown ==
    /\ []((\/ state \in {"CONFIGURING", "MONITORING"}
           \/ pc \in {"CONFIGURING", "MONITORING", "monitor_verify", "monitor_setup"}) =>
              (current_port # None /\ last_port_refresh = "set"))
    /\ [](tickHandler = "CONFIGURING" => tickResult.calls # <<>> \/ pc # "loop")
    /\ [][current_port # None => current_port' # None]_vars

\* MONITORING reached through a CONFIGURING tick, with the port of this
\* run's refresh held and saved
C38_Witness ==
    /\ state = "MONITORING"
    /\ pc = "loop"
    /\ tickHandler = "CONFIGURING"
    /\ file_last_port # "absent"
    /\ current_port # None
    /\ last_port_refresh = "set"

\* s is an initial part of t
IsPrefix(s, t) == Len(s) <= Len(t) /\ SubSeq(t, 1, Len(s)) = s

\* the checks a tick made: its calls without the closing setup() and sleep
Checks(calls) == SelectSeq(calls, LAMBDA c : c \notin {"setup", "sleep"})

\* the calls of a MONITORING tick that evaluates every check
MonitorOrder == <<"is_healthy", "is_reachable", "verify_interface_binding", "verify">>

\* a MONITORING tick has ended
MonitorEnded == pc = "loop" /\ tickHandler = "MONITORING"

\* C31: the checks of a MONITORING tick are an initial part of VPN health,
\* client reachable, interface binding, killswitch verify (VPN health left
\* out when not due); a tick that leaves MONITORING made no check behind the
\* one that decided it: WAITING_VPN after the health check alone, MAPPING_PORT
\* before any client call, WAITING_QBT and CONFIGURING before verify(); and
\* a tick whose health check did not return true leaves last_vpn_check as it
\* was.
C31_MonitorOrder ==
    /\ [](MonitorEnded =>
            LET calls == tickResult.calls IN
            /\ \/ IsPrefix(Checks(calls), MonitorOrder)
               \/ IsPrefix(Checks(calls), Tail(MonitorOrder))
            /\ state = "WAITING_VPN" => calls = <<"is_healthy">>
            /\ state = "MAPPING_PORT" => IsPrefix(calls, <<"is_healthy">>)
            /\ state = "WAITING_QBT" =>
                   /\ Checks(calls) = calls
                   /\ calls[Len(calls)] \in {"is_reachable", "verify_interface_binding"}
            /\ state = "CONFIGURING" =>
                   /\ Checks(calls) = calls
                   /\ calls[Len(calls)] = "verify_interface_binding")
    /\ [][(pc = "MONITORING" /\ (\/ state' = "WAITING_VPN"
                                 \/ tickResult'.calls = <<>>
                                 \/ tickResult'.calls[1] # "is_healthy"
                                 \/ tickResult'.caught = "WireGuardError")) =>
             last_vpn_check' = last_vpn_check]_vars
    /\ [][(pc = "MONITORING" /\ state' = "WAITING_VPN") =>
             UNCHANGED <<ksVars, clientVars, qbt_port, qbt_iface>>]_vars
    /\ [][last_vpn_check' # last_vpn_check => pc = "MONITORING"]_vars

\* the first MONITORING tick found the VPN unhealthy
C31_Witness ==
    /\ MonitorEnded
    /\ state = "WAITING_VPN"
    /\ tickResult.calls = <<"is_healthy">>
    /\ last_vpn_check = None

\* a MONITORING tick that evaluated every check and slept
C31_WitnessAllChecks ==
    /\ MonitorEnded
    /\ state = "MONITORING"
    /\ tickResult.calls = Append(MonitorOrder, "sleep")
    /\ last_vpn_check # None

\* the chain, the jump rule of the configured uid, the VPN-accept rule and
\* the REJECT rule are all there
AllInPlace ==
    /\ chainExists
    /\ RuleExists(output, "jump")
    /\ RuleExists(chainRules, "vpn")
    /\ RuleExists(chainRules, "rej")

\* _monitor goes on from verify(), or from the setup() that followed it
VerifyEnded == pc = "monitor_verify" /\ kpc = "idle" /\ pc' # pc
SetupEnded == pc = "monitor_setup" /\ kpc = "idle" /\ pc' # pc

\* what C32 says of the setup() of a MONITORING tick: a setup() that raises
\* counts exactly one failure, one that returns leaves every element in place
\* when the tick ends and counts none
C32_AfterSetup ==
    SetupEnded =>
        /\ pc' = "loop"
        /\ IF kraised
              THEN tickFailed' /\ consecutive_failures' = consecutive_failures + 1
              ELSE /\ AllInPlace'
                   /\ ~tickFailed'
                   /\ consecutive_failures' = consecutive_failures

\* C32 as claimed: whenever the tick reaches the killswitch check and an
\* element is missing, setup() is invoked in that tick.
C32_MissingElementIsReinstalled ==
    [][/\ (VerifyEnded /\ ~AllInPlace) =>
              (pc' = "monitor_setup" /\ kpc' = "setup")
       /\ C32_AfterSetup]_vars

\* C32 amended: when verify() returns, it returns false exactly if an element
\* is missing, and then setup() is invoked in that tick; when verify()
\* raises, setup() is not invoked and the tick counts exactly one failure.
C32_MismatchIsReinstalled ==
    [][/\ (VerifyEnded /\ ~kraised) =>
              /\ kvalue = AllInPlace
              /\ IF AllInPlace
                    THEN pc' = "loop" /\ ~tickFailed' /\ UNCHANGED Filter
                    ELSE pc' = "monitor_setup" /\ kpc' = "setup"
       /\ (VerifyEnded /\ kraised) =>
              /\ pc' = "loop"
              /\ UNCHANGED Filter
              /\ tickFailed'
              /\ consecutive_failures' = consecutive_failures + 1
       /\ C32_AfterSetup]_vars

\* a MONITORING tick found the REJECT rule missing and setup() put it back
C32_Witness ==
    /\ MonitorEnded
    /\ tampered
    /\ Len(tickResult.calls) >= 2
    /\ tickResult.calls[Len(tickResult.calls) - 1] = "setup"
    /\ ~tickFailed
    /\ AllInPlace

\* the setup() of a MONITORING tick raised
C32_WitnessFailure ==
    /\ MonitorEnded
    /\ Len(tickResult.calls) >= 2
    /\ tickResult.calls[Len(tickResult.calls) - 1] = "setup"
    /\ tickResult.caught = "KillswitchError"
    /\ tickFailed

\* the supervisor is in its steady cycle
Settled ==
    /\ state \in {"MONITORING", "MAPPING_PORT", "CONFIGURING"}
    /\ consecutive_failures = 0

\* C40: with ticks scheduled fairly, the VPN healthy, the client reachable and
\* accepting updates, refreshes and packet-filter commands succeeding and no
\* signal, the supervisor reaches MONITORING from wherever it is, and from
\* some point on it only visits MONITORING, MAPPING_PORT and CONFIGURING with
\* consecutive_failures = 0.
C40_Converges ==
    /\ <>(state = "MONITORING")
    /\ <>[]Settled

\* ------------------------------------------------- killswitch: properties
\* setup() has returned to its caller without raising
SetupReturned == kpc = "idle" /\ kop = "setup" /\ ~kraised

\* cleanup() has returned to its caller
CleanupReturned == kpc = "idle" /\ kop = "cleanup"

\* C5: whenever setup() returns without raising, from any prior packet-filter
\* state and also when its internal cleanup() failed, the chain holds exactly
\* the four rules in order and verify() is true.
C5_SetupLeavesFourRules ==
    SetupReturned => (chainExists /\ chainRules = FourRules /\ VerifyValue(Filter))

\* C6: every call sequence that ends with a cleanup() whose commands all
\* succeeded leaves no QBOUNCER-KS chain and no jump rule for the configured
\* uid in OUTPUT.
C6_CleanupRemovesAll ==
    (CleanupReturned /\ ~kfailed) => (~chainExists /\ ~RuleExists(output, "jump"))

\* a cleanup() after another call that flushed, deleted two jump rules and
\* deleted the chain
C6_Witness ==
    /\ CleanupReturned
    /\ ~kfailed
    /\ kprev.op = "verify"
    /\ klog = <<"F", "D", "D", "X">>

\* The place of a mutating command in the documented order
Phase(c) ==
    CASE c = "F" -> 1
      [] c = "D" -> 2
      [] c = "X" -> 3
      [] c = "N" -> 4
      [] c = "A" -> 5
      [] c = "I" -> 6

\* C7: setup() issues create chain, the four appends, insert jump in that
\* order and cleanup() issues flush, jump deletions, delete chain in that
\* order; -X is never issued while a jump rule of the configured uid is in
\* OUTPUT, and the jump rule is never inserted while the chain lacks REJECT.
C7_CommandOrder ==
    /\ \A i, j \in 1..Len(klog) : i < j => Phase(klog[i]) <= Phase(klog[j])
    /\ \A c \in {"F", "X", "N", "I"} : Count(klog, c) <= 1
    /\ Count(klog, "A") <= Len(FourRules)
    /\ kop = "cleanup" => \A i \in 1..Len(klog) : klog[i] \in {"F", "D", "X"}
    /\ kpc = "delchain" => ~RuleExists(output, "jump")
    /\ kpc = "addjump" => (chainExists /\ RuleExists(chainRules, "rej"))

\* a setup() over a residual chain that issued every kind of command
C7_Witness ==
    /\ SetupReturned
    /\ klog = <<"F", "D", "X", "N", "A", "A", "A", "A", "I">>

\* C8: after every setup() that returns without raising, the jump rule of the
\* configured uid is rule 1 of OUTPUT and occurs exactly once.
C8_JumpFirstOnce ==
    SetupReturned =>
        (Len(output) >= 1 /\ output[1] = "jump" /\ Count(output, "jump") = 1)

\* Two packet filters hold the same rules, whatever their order
SameRules(f, g) ==
    /\ f.ce = g.ce
    /\ \A r \in {"lo", "est", "vpn", "rej"} : Count(f.cr, r) = Count(g.cr, r)
    /\ \A r \in OutAlphabet : Count(f.out, r) = Count(g.out, r)

\* C9: setup() followed immediately by setup() leaves the rule set the first
\* setup() left, and that is one chain, the four chain rules without
\* duplicates and exactly one jump rule.
C9_SetupTwice ==
    (SetupReturned /\ kprev.op = "setup" /\ ~kprev.raised) =>
        /\ SameRules(Filter, kbefore)
        /\ chainExists
        /\ Len(chainRules) = Len(FourRules)
        /\ \A i \in 1..Len(FourRules) : Count(chainRules, FourRules[i]) = 1
        /\ Count(output, "jump") = 1

====
